---- MODULE Spec2Model ----
\* Model of the sequential task pipeline of src/src/pipeline.ts: pipe(tasks).run(initialContext).
\* One run is an async function: it executes synchronously up to `await task.run(context)`,
\* is suspended while the promise of the work is pending, and is resumed after it settled.
EXTENDS Integers, Sequences, FiniteSets, TLC

\* ---------------------------------------------------------------- bounds
MaxTasks == 3
MaxClock == 2
MaxConcTasks == 2
MaxFiles == 3
MaxListLen == 2

\* ---------------------------------------------------------------- values
\* Context keys and (nested) context values.
Keys == {"a", "b", "c"}
V1 == [x |-> 1]
V2 == [y |-> 2]
V3 == [x |-> 3]

\* `{}`
EmptyCtx == [k \in {} |-> V1]

\* JavaScript values that cross the executor: what a work resolves to or throws.
Undefined == [t |-> "undefined"]
Null == [t |-> "null"]
Obj(m) == [t |-> "object", v |-> m]
Num(n) == [t |-> "number", n |-> n]
ErrorRef(ref) == [t |-> "Error", ref |-> ref]
ObjRef(ref) == [t |-> "object", ref |-> ref]

\* Error objects live in `errs`, plain objects (contexts, and the updates the works return)
\* in `heap`; an object is referred to by its index there, and 0 refers to no object.
\* Obj(m) describes an object a work is going to create, ObjRef(ref) is the created object.
NewError(message, cause, origin) == [message |-> message, cause |-> cause, origin |-> origin]

\* ---------------------------------------------------------------- the task list
\* Absence markers: `false`, `null`, `undefined`.
MarkerFalse == [kind |-> "false"]
MarkerNull == [kind |-> "null"]
MarkerUndefined == [kind |-> "undefined"]
Markers == {MarkerFalse, MarkerNull, MarkerUndefined}

\* Task descriptors {name, run, onSuccess?, onError?}; run/onSuccess/onError name the
\* function bodies interpreted by Work, OnSuccess and OnError below ("none": not supplied).
Task(name, run, onSuccess, onError) ==
  [kind |-> "task", name |-> name, run |-> run, onSuccess |-> onSuccess, onError |-> onError]

TaskA == Task("A", "setA", "none", "none")
TaskB == Task("B", "override", "showA", "none")
TaskC == Task("C", "void", "none", "none")
TaskD == Task("D", "reject", "none", "custom")
TaskE == Task("E", "throw", "none", "none")
Tasks == {TaskA, TaskB, TaskC, TaskD, TaskE}

\* Tasks whose work fails with a value that is no Error: `return Promise.reject(42)` with
\* an onError callback, and `throw null` without one.
TaskF == Task("F", "rejectValue", "none", "custom")
TaskG == Task("G", "throwValue", "none", "none")

\* Tasks whose work resolves to a value that is no object: `async () => null` and
\* `async () => 0`.
TaskN == Task("N", "null", "none", "none")
TaskZ == Task("Z", "zero", "none", "none")

\* A task whose work resolves and whose onSuccess callback throws.
TaskH == Task("H", "setA", "throws", "custom")

\* A task whose work assigns to a key of the context object it is handed, in place, and
\* returns nothing.
TaskM == Task("M", "mutate", "showA", "none")

\* A task whose work rejects and whose onError callback throws.
TaskI == Task("I", "reject", "none", "throws")

Elements == Markers \cup Tasks

\* All lists of at most n elements of S.
ListsUpTo(S, n) == UNION {[1..m -> S] : m \in 0..n}

\* ---------------------------------------------------------------- user functions
\* task.run(ctx): what the work does with the context it is handed.
\*   mode "resolve": returns a promise that is later fulfilled with `value`
\*   mode "reject":  returns a promise that is later rejected with `new Error(message)`
\*   mode "throw":   throws `new Error(message)` synchronously, returning no promise
\*   mode "rejectValue": returns a promise that is later rejected with `value`, no Error
\*   mode "throwValue":  throws `value`, no Error, synchronously
Work(task, ctx) ==
  CASE task.run = "setA" -> [mode |-> "resolve", value |-> Obj([a |-> V1]), message |-> ""]
    [] task.run = "override" ->
         [mode |-> "resolve",
          value |-> Obj(IF "a" \in DOMAIN ctx THEN [a |-> V2, b |-> ctx["a"]] ELSE [a |-> V2]),
          message |-> ""]
    [] task.run = "void" -> [mode |-> "resolve", value |-> Undefined, message |-> ""]
    [] task.run = "mutate" -> [mode |-> "resolve", value |-> Undefined, message |-> ""]
    [] task.run = "null" -> [mode |-> "resolve", value |-> Null, message |-> ""]
    [] task.run = "zero" -> [mode |-> "resolve", value |-> Num(0), message |-> ""]
    [] task.run = "reject" -> [mode |-> "reject", value |-> Undefined, message |-> "boom"]
    [] task.run = "throw" -> [mode |-> "throw", value |-> Undefined, message |-> "bang"]
    [] task.run = "rejectValue" -> [mode |-> "rejectValue", value |-> Num(42), message |-> ""]
    [] task.run = "throwValue" -> [mode |-> "throwValue", value |-> Null, message |-> ""]

\* What the work assigns in place onto the context object it is handed, before its promise
\* settles: `async (ctx) => { ctx.a = { y: 2 } }` for "mutate", nothing for the others.
Writes(task, ctx) == IF task.run = "mutate" THEN [a |-> V2] ELSE EmptyCtx

\* onSuccess: () => { throw new Error("bad format") }
OnSuccessThrows(task) == task.onSuccess = "throws"

\* onSuccess: (ctx) => `a.x=${ctx.a?.x}`
OnSuccess(task, ctx, duration) ==
  IF "a" \in DOMAIN ctx /\ "x" \in DOMAIN ctx["a"]
    THEN "a.x=" \o ToString(ctx["a"]["x"])
    ELSE "a.x=undefined"

\* onError: () => { throw new Error("bad handler") }
OnErrorThrows(task) == task.onError = "throws"

\* onError: (error) => `Custom error: ${error.message}`
OnError(task, error) == "Custom error: " \o error.message

\* ---------------------------------------------------------------- executor helpers
\* `!task`: absence markers are falsy, task descriptors are truthy.
Falsy(element) == element.kind \in {"false", "null", "undefined"}

\* Mutant of NextTask: the loop does not move on, an element that was visited is visited
\* again.
NextTaskStay(list, i) ==
  LET from == IF i > 1 THEN i - 1 ELSE i
  IN  IF \E j \in from..Len(list) : ~Falsy(list[j])
        THEN CHOOSE j \in from..Len(list) :
               ~Falsy(list[j]) /\ \A h \in from..(j - 1) : Falsy(list[h])
        ELSE Len(list) + 1

\* Mutant of NextTask: `break` in place of `continue`, the loop ends at the first marker.
NextTaskBreak(list, i) ==
  IF i <= Len(list) /\ ~Falsy(list[i]) THEN i ELSE Len(list) + 1

\* `for (const task of tasks) { if (!task) continue ... }`: the index of the first element
\* at or after position i that is not skipped, Len(list) + 1 when the loop runs out.
NextTask(list, i) ==
  IF \E j \in i..Len(list) : ~Falsy(list[j])
    THEN CHOOSE j \in i..Len(list) : ~Falsy(list[j]) /\ \A h \in i..(j - 1) : Falsy(list[h])
    ELSE Len(list) + 1

\* Mutant of Coalesce: `&&` in place of `??`, an object the work resolved to is replaced
\* by `{}` and nothing of it is read.
CoalesceAnd(value, objects) == EmptyCtx

\* `await task.run(context) ?? {}`: the own properties the spread at line 56 will read,
\* those of a fresh `{}` when the work resolved to undefined or null, those of the object
\* when it resolved to one, and none when it resolved to a number, which has none.
Coalesce(value, objects) ==
  IF value.t \in {"undefined", "null"} THEN EmptyCtx
  ELSE IF value.t = "object" THEN objects[value.ref]
  ELSE EmptyCtx

\* Mutant of Merge: the spreads are swapped, `{ ...updates, ...context }`.
MergeBaseWins(base, updates) ==
  [k \in DOMAIN base \cup DOMAIN updates |-> IF k \in DOMAIN base THEN base[k] ELSE updates[k]]

\* Mutant of Merge: the updates are dropped, `{ ...context }`.
MergeKeepBase(base, updates) == base

\* Mutant of Merge: the context is replaced by the updates, `{ ...updates }`.
MergeUpdatesOnly(base, updates) == updates

\* `{ ...context, ...updates }`
Merge(base, updates) ==
  [k \in DOMAIN base \cup DOMAIN updates |-> IF k \in DOMAIN updates THEN updates[k] ELSE base[k]]

\* Mutant of SuccessMessage: the callback is ignored, the name is always shown.
SuccessMessageNameOnly(task, ctx, duration) == task.name

\* `task.onSuccess?.(context, duration) ?? task.name`
SuccessMessage(task, ctx, duration) ==
  IF task.onSuccess = "none" THEN task.name ELSE OnSuccess(task, ctx, duration)

\* Mutant of InstanceOfError: every thrown value is wrapped in a new Error.
InstanceOfErrorNever(error) == FALSE

\* `error instanceof Error`
InstanceOfError(error) == error.t = "Error"

\* Mutant of String: `typeof error` in place of `String(error)`.
StringTypeof(error, es) == IF error.t = "null" THEN "object" ELSE error.t

\* `String(error)`; es holds the Error objects
String(error, es) ==
  CASE error.t = "Error" -> "Error: " \o es[error.ref].message
    [] error.t = "number" -> ToString(error.n)
    [] error.t = "undefined" -> "undefined"
    [] error.t = "null" -> "null"
    [] error.t = "object" -> "[object Object]"

\* Mutant of FailureMessage: the callback is ignored, the name is always shown.
FailureMessageNameOnly(task, err) == task.name

\* `task.onError?.(err) ?? task.name`
FailureMessage(task, err) ==
  IF task.onError = "none" THEN task.name ELSE OnError(task, err)

\* Mutant of CompositeMessage: the task's name is not quoted.
CompositeMessageUnquoted(name, message) == "Task " \o name \o " failed: " \o message

\* `Task "${task.name}" failed: ${err.message}`
CompositeMessage(name, message) == "Task \"" \o name \o "\" failed: " \o message

\* `{ cause: err }`
CompositeCause(err) == err

\* Mutant of Elapsed: the operands are swapped.
ElapsedReversed(reading, start) == start - reading

\* `Date.now() - start`
Elapsed(reading, start) == reading - start

\* ---------------------------------------------------------------- fileList
\* `const WIDTH = 45`
WIDTH == 45

\* A file below baseDir: the directories on its relative path, its name and its size.
File(dirs, base, ext, size) == [dirs |-> dirs, base |-> base, ext |-> ext, size |-> size]

FileEntries ==
  { File(<<>>, "file1", "txt", 6),
    File(<<>>, "file2", "js", 0),
    File(<<"src">>, "index", "ts", 200),
    File(<<"src", "lib">>, "utils", "ts", 94),
    File(<<"dist">>, "index", "js", 800) }

Patterns == {"**/*", "*.txt", "src/**/*.ts"}

\* Array.prototype.join
RECURSIVE Join(_, _)
Join(parts, sep) ==
  IF parts = <<>> THEN ""
  ELSE IF Len(parts) = 1 THEN parts[1]
  ELSE parts[1] \o sep \o Join(Tail(parts), sep)

\* The relative path fdir reports for a file (withRelativePaths), with `/` between its
\* segments; `path.replace(/\\/g, '/')` leaves such a path as it is.
RelativePath(file) == Join(file.dirs \o <<file.base \o "." \o file.ext>>, "/")

\* picomatch: whether the glob pattern matches the relative path of the file.
Matches(glob, file) ==
  CASE glob = "**/*" -> TRUE
    [] glob = "*.txt" -> file.dirs = <<>> /\ file.ext = "txt"
    [] glob = "src/**/*.ts" -> file.dirs # <<>> /\ file.dirs[1] = "src" /\ file.ext = "ts"

\* Mutant of Crawl: the pattern is not applied, every file below baseDir is reported.
CrawlAll(tree, glob) == tree

\* `new fdir().withRelativePaths().withGlobFunction(pm).glob(pattern).crawl(baseDir).sync()`:
\* the files below baseDir that match, in the order of the crawl.
Crawl(tree, glob) == SelectSeq(tree, LAMBDA file : Matches(glob, file))

RECURSIVE Spaces(_)
Spaces(n) == IF n <= 0 THEN "" ELSE " " \o Spaces(n - 1)

\* String.prototype.padEnd
PadEnd(s, width) == s \o Spaces(width - Len(s))

\* picocolors: the text between the escape sequences of the style when colors are
\* supported (ESC stands for the escape character), the text alone when they are not.
Cyan(s, on) == IF on THEN "ESC[36m" \o s \o "ESC[39m" ELSE s
Dim(s, on) == IF on THEN "ESC[2m" \o s \o "ESC[22m" ELSE s

\* pretty-bytes for sizes below 10 kB: bytes as they are, kilobytes with three significant
\* digits and without trailing zeros ("0 B", "206 B", "1 kB", "1.01 kB", "1.1 kB").
Bytes(n) ==
  IF n < 1000 THEN ToString(n) \o " B"
  ELSE LET hundredths == (n + 5) \div 10
           whole == hundredths \div 100
           frac == hundredths % 100
       IN  ToString(whole)
             \o (IF frac = 0 THEN ""
                 ELSE IF frac % 10 = 0 THEN "." \o ToString(frac \div 10)
                 ELSE IF frac < 10 THEN ".0" \o ToString(frac)
                 ELSE "." \o ToString(frac))
             \o " kB"

\* `stats.reduce((sum, item) => sum + item.size, 0)`
RECURSIVE Total(_)
Total(stats) == IF stats = <<>> THEN 0 ELSE stats[1].size + Total(Tail(stats))

\* fileList(baseDir, pattern): the lines of the listing and the string returned.
FileList(tree, glob, on) ==
  LET files == Crawl(tree, glob)
      stats == [i \in 1..Len(files) |->
                  [path |-> RelativePath(files[i]), size |-> files[i].size]]
      total == Total(stats)
      lines == [i \in 1..Len(stats) |->
                  "  " \o Cyan(PadEnd(stats[i].path, WIDTH), on)
                       \o "  " \o Dim(Bytes(stats[i].size), on)]
      footerLabel == PadEnd(ToString(Len(files)) \o " files, total:", WIDTH)
      footer == "  " \o Dim(footerLabel, on) \o "  " \o Dim(Bytes(total), on)
  IN  [lines |-> Append(lines, footer), text |-> Join(Append(lines, footer), "\n")]

\* ---------------------------------------------------------------- state
VARIABLES
  tree,            \* the files below baseDir, in the order fdir crawls them
  pattern,         \* the glob pattern fileList is called with
  colors,          \* whether picocolors emits escape sequences
  listing,         \* what fileList returned, once it was called
  tasks,           \* tasks[p]: the caller's list that pipeline p is built from and refers to
  built,           \* the pipelines that were constructed: pipe(tasks[p]) has returned
  supplied,        \* supplied[p]: what the list held when pipe was called with it
  caller,          \* the caller's script: which runs it invokes and whether it awaits each
  pipeOf,          \* pipeOf[r]: the pipeline run r is invoked on
  initialContext,  \* initialContext[r]: the object passed to run r
  pc,              \* pc[r]: where run r stands
  idx,             \* idx[r]: position in the list of the task run r is executing
  current,         \* current[r]: the loop variable `task` of run r
  context,         \* context[r]: the running context (an object reference)
  startTime,       \* startTime[r]
  taskStart,       \* taskStart[r]
  taskEnd,         \* taskEnd[r]: the reading of line 53, after the last work that completed
  settled,         \* settled[r]: how the promise run r awaited settled
  result,          \* result[r]: what the promise returned by run r settled with
  inflight,        \* inflight[r]: the works run r invoked whose promises are pending
  workTime,        \* workTime[r]: the time the works of run r took from invocation to
                   \* settlement, in total
  notifier,        \* how the notifiers behave: which of their calls throws, if any, and
                   \* from which notifier of a run on
  heap,            \* plain objects, by reference
  errs,            \* Error objects, by reference
  now,             \* the time: the last reading of Date.now(), or later
  log              \* every call the executor made, every merge and every throw, in order

fileVars == <<tree, pattern, colors, listing>>

vars == <<tasks, built, supplied, current, caller, pipeOf, initialContext, pc, idx,
          context, startTime, taskStart,
          taskEnd, settled, result, inflight, workTime, notifier, heap, errs, now, log,
          fileVars>>

RunIds == {1, 2}

\* One call made by the executor on behalf of run r, for the element at position pos.
Ev(r, op, pos, name) ==
  [run |-> r, op |-> op, pos |-> pos, name |-> name,
   ref |-> 0, ctx |-> EmptyCtx, msg |-> "", dur |-> 0]

\* Mutant of Now: the clock is read twice where the executor reads it once.
NowTwice(r, pos) == <<Ev(r, "now", pos, ""), Ev(r, "now", pos, "")>>

\* One reading of the clock, `Date.now()`, by run r for the element at position pos
\* (position 0: for the run as a whole).
Now(r, pos) == <<Ev(r, "now", pos, "")>>

NoResult == [t |-> "none", context |-> 0, duration |-> 0, error |-> 0]
Resolved(ref, duration) == [t |-> "resolved", context |-> ref, duration |-> duration, error |-> 0]
Rejected(ref) == [t |-> "rejected", context |-> 0, duration |-> 0, error |-> ref]
Pending == [state |-> "pending", value |-> Undefined]
Fulfilled(value) == [state |-> "fulfilled", value |-> value]

\* The part of the state one synchronous stretch of run r reads and writes.
Frame(r) ==
  [pc |-> pc[r], idx |-> idx[r], task |-> current[r], context |-> context[r], taskStart |-> taskStart[r],
   taskEnd |-> taskEnd[r], settled |-> settled[r], result |-> result[r], inflight |-> inflight[r],
   heap |-> heap, errs |-> errs, log |-> log]

\* ---------------------------------------------------------------- run: the synchronous stretches
\* The call `call` on the notifier of the task run r is at throws: the stream the notifiers
\* write to broke before this notifier, the latest in the log of frame f, was created.
Breaks(f, r, call) ==
  /\ notifier.call = call
  /\ Len(SelectSeq(f.log, LAMBDA e : e.run = r /\ e.op = "ora")) >= notifier.from

\* Mutant of Catch: the failure is notified and then swallowed, nothing is thrown and the
\* loop goes on as if the work had returned nothing.
CatchSwallow(f, r, task, error) ==
  [f EXCEPT !.pc = "settled",
            !.settled = Fulfilled(Undefined),
            !.log = f.log \o <<[Ev(r, "fail", f.idx, task.name) EXCEPT !.msg = task.name]>>]

\* Mutant of Catch: the failure is notified and the work is invoked again.
CatchRetry(f, r, task, error) ==
  [f EXCEPT !.pc = "awaiting",
            !.settled = Pending,
            !.inflight = @ \cup {[pos |-> f.idx, task |-> task, ref |-> f.context,
                                  at |-> f.taskStart]},
            !.log = f.log \o
              <<[Ev(r, "fail", f.idx, task.name) EXCEPT !.msg = task.name],
                [Ev(r, "work", f.idx, task.name) EXCEPT
                   !.ref = f.context, !.ctx = f.heap[f.context]]>>]

\* Mutant of Catch: what onError throws is caught, the name is shown in place of its text
\* and the failure is handled to the end.
CatchGuarded(f, r, task, error) ==
  LET wrap == ~InstanceOfError(error)
      errs1 == IF wrap THEN Append(f.errs, NewError(String(error, f.errs), 0, "normalize"))
               ELSE f.errs
      err == IF wrap THEN Len(errs1) ELSE error.ref
      message == IF OnErrorThrows(task) THEN task.name ELSE FailureMessage(task, errs1[err])
      called == IF task.onError = "none" THEN <<>>
                ELSE <<[Ev(r, "onError", f.idx, task.name) EXCEPT !.ref = err]>>
      errs2 == Append(errs1, NewError(CompositeMessage(task.name, errs1[err].message),
                                      CompositeCause(err), "composite"))
  IN  [f EXCEPT !.pc = "rejected",
                !.errs = errs2,
                !.log = f.log \o called
                          \o <<[Ev(r, "fail", f.idx, task.name) EXCEPT !.msg = message],
                               [Ev(r, "throw", f.idx, task.name) EXCEPT !.ref = Len(errs2)]>>,
                !.result = Rejected(Len(errs2))]

\* Mutant of Catch: the composite message is built from the text shown by the notifier.
CatchShownText(f, r, task, error) ==
  LET wrap == ~InstanceOfError(error)
      errs1 == IF wrap THEN Append(f.errs, NewError(String(error, f.errs), 0, "normalize"))
               ELSE f.errs
      err == IF wrap THEN Len(errs1) ELSE error.ref
      message == FailureMessage(task, errs1[err])
      called == IF task.onError = "none" THEN <<>>
                ELSE <<[Ev(r, "onError", f.idx, task.name) EXCEPT !.ref = err]>>
      errs2 == Append(errs1, NewError(CompositeMessage(task.name, message),
                                      CompositeCause(err), "composite"))
  IN  [f EXCEPT !.pc = "rejected",
                !.errs = errs2,
                !.log = f.log \o called
                          \o <<[Ev(r, "fail", f.idx, task.name) EXCEPT !.msg = message],
                               [Ev(r, "throw", f.idx, task.name) EXCEPT !.ref = Len(errs2)]>>,
                !.result = Rejected(Len(errs2))]

\* catch (error) { ... }: normalize, notify the failure, reject with the composite. An
\* exception thrown by onError or by spinner.fail leaves the catch block as it is: the
\* run rejects with it, and what follows the throwing call is not done.
Catch(f, r, task, error) ==
  LET wrap == ~InstanceOfError(error)
      errs1 == IF wrap THEN Append(f.errs, NewError(String(error, f.errs), 0, "normalize"))
               ELSE f.errs
      err == IF wrap THEN Len(errs1) ELSE error.ref
      message == FailureMessage(task, errs1[err])
      called == IF task.onError = "none" THEN <<>>
                ELSE <<[Ev(r, "onError", f.idx, task.name) EXCEPT !.ref = err]>>
      errs2 == Append(errs1, NewError(CompositeMessage(task.name, errs1[err].message),
                                      CompositeCause(err), "composite"))
      raised == Append(errs1, NewError("bad handler", 0, "callback"))
      broken == Append(errs1, NewError("write EPIPE", 0, "notifier"))
  IN  IF OnErrorThrows(task)
        THEN [f EXCEPT !.pc = "rejected",
                       !.errs = raised,
                       !.log = f.log \o called,
                       !.result = Rejected(Len(raised))]
      ELSE IF Breaks(f, r, "fail")
        THEN [f EXCEPT !.pc = "rejected",
                       !.errs = broken,
                       !.log = f.log \o called
                                 \o <<[Ev(r, "fail", f.idx, task.name) EXCEPT
                                         !.msg = message]>>,
                       !.result = Rejected(Len(broken))]
      ELSE
      [f EXCEPT !.pc = "rejected",
                !.errs = errs2,
                !.log = f.log \o called
                          \o <<[Ev(r, "fail", f.idx, task.name) EXCEPT !.msg = message],
                               [Ev(r, "throw", f.idx, task.name) EXCEPT !.ref = Len(errs2)]>>,
                !.result = Rejected(Len(errs2))]

\* Mutant of Assign: the work was handed a copy, the object of the executor is untouched.
AssignToCopy(objects, ref, writes) == objects

\* The work was handed the object `ref` itself (`task.run(context)` passes the reference):
\* what it assigns to the keys of its argument is assigned to that object.
Assign(objects, ref, writes) == [objects EXCEPT ![ref] = writes @@ @]

\* Mutant of Await: the run gives up on the pending promise as if it had been rejected,
\* `await Promise.race([promise, timeout])`.
AwaitTimeout(f) == [f EXCEPT !.pc = "settled",
                             !.settled = [state |-> "rejected", value |-> Undefined]]

\* Mutant of Await: the promise is not awaited, the run goes on at once as if the work
\* had resolved to nothing.
AwaitNot(f) == [f EXCEPT !.pc = "settled", !.settled = Fulfilled(Undefined)]

\* `await <promise>`: the run is suspended until the promise settles.
Await(f) == [f EXCEPT !.pc = "awaiting"]

\* Mutant of Begin: the notifier is created and started inside the try block, what these
\* calls throw is handled as a failure of the task.
BeginInsideTry(f, r, task, j, reading) ==
  LET broken == Append(f.errs, NewError("write EPIPE", 0, "notifier"))
      created == [f EXCEPT !.idx = j,
                           !.task = task,
                           !.taskStart = reading,
                           !.log = f.log \o Now(r, j) \o <<Ev(r, "ora", j, task.name)>>]
      started == [created EXCEPT !.log = @ \o <<Ev(r, "start", j, task.name)>>]
  IN  CASE Breaks(created, r, "create") ->
             Catch([created EXCEPT !.errs = broken], r, task, ErrorRef(Len(broken)))
        [] Breaks(started, r, "start") ->
             Catch([started EXCEPT !.errs = broken], r, task, ErrorRef(Len(broken)))
        [] OTHER -> started

\* The start of the task at position j, before the try block: the clock is read, the
\* notifier is created and started. What ora(...) or start() throws is caught by nothing:
\* the run rejects with it.
Begin(f, r, task, j, reading) ==
  LET broken == Append(f.errs, NewError("write EPIPE", 0, "notifier"))
      created == [f EXCEPT !.idx = j,
                           !.task = task,
                           !.taskStart = reading,
                           !.log = f.log \o Now(r, j) \o <<Ev(r, "ora", j, task.name)>>]
      started == [created EXCEPT !.log = @ \o <<Ev(r, "start", j, task.name)>>]
  IN  CASE Breaks(created, r, "create") ->
             [created EXCEPT !.pc = "rejected",
                             !.errs = broken,
                             !.result = Rejected(Len(broken))]
        [] Breaks(started, r, "start") ->
             [started EXCEPT !.pc = "rejected",
                             !.errs = broken,
                             !.result = Rejected(Len(broken))]
        [] OTHER -> started

\* The loop from element i on, up to the next suspension or the end of run r:
\* skip the absence markers; then either start the next task and invoke its work, or,
\* past the last element, read the clock and resolve. `reading` is what Date.now() returns.
Advance(f, r, list, i, start, reading) ==
  LET j == NextTask(list, i)
  IN  IF j > Len(list)
        THEN [f EXCEPT !.pc = "resolved",
                       !.idx = j,
                       !.log = f.log \o Now(r, 0),
                       !.result = Resolved(f.context, Elapsed(reading, start))]
        ELSE LET task == list[j]
                 w == Work(task, f.heap[f.context])
                 begun == Begin(f, r, task, j, reading)
                 f1 == [begun EXCEPT !.log = @ \o
                          <<[Ev(r, "work", j, task.name) EXCEPT
                               !.ref = f.context, !.ctx = f.heap[f.context]]>>]
             IN  CASE begun.pc = "rejected" -> begun
                   [] w.mode = "throw" ->
                        LET thrown == Append(f1.errs, NewError(w.message, 0, "task"))
                        IN  Catch([f1 EXCEPT !.errs = thrown], r, task, ErrorRef(Len(thrown)))
                   [] w.mode = "throwValue" -> Catch(f1, r, task, w.value)
                   [] OTHER ->
                        Await([f1 EXCEPT !.inflight =
                                 @ \cup {[pos |-> j, task |-> task, ref |-> f.context,
                                          at |-> reading]}])

\* Mutant of Succeed: the updates are merged first, onSuccess is handed the merged context.
SucceedMergeFirst(f, r, task, value, reading) ==
  LET updates == Coalesce(value, f.heap)
      duration == Elapsed(reading, f.taskStart)
      merged == Append(f.heap, Merge(f.heap[f.context], updates))
      ctx == merged[Len(merged)]
      message == SuccessMessage(task, ctx, duration)
      called == IF task.onSuccess = "none" THEN <<>>
                ELSE <<[Ev(r, "onSuccess", f.idx, task.name) EXCEPT
                          !.ref = Len(merged), !.ctx = ctx, !.dur = duration]>>
  IN  [f EXCEPT !.heap = merged,
                !.context = Len(merged),
                !.taskEnd = reading,
                !.settled = Pending,
                !.log = f.log \o Now(r, f.idx)
                          \o <<[Ev(r, "merge", f.idx, task.name) EXCEPT
                                  !.ref = Len(merged), !.ctx = ctx]>>
                          \o called
                          \o <<[Ev(r, "succeed", f.idx, task.name) EXCEPT !.msg = message]>>]

\* Mutant of Succeed: the task's duration is measured from the start of the run.
SucceedCumulative(f, r, task, value, reading) ==
  LET updates == Coalesce(value, f.heap)
      duration == Elapsed(reading, startTime[r])
      ctx == f.heap[f.context]
      message == SuccessMessage(task, ctx, duration)
      called == IF task.onSuccess = "none" THEN <<>>
                ELSE <<[Ev(r, "onSuccess", f.idx, task.name) EXCEPT
                          !.ref = f.context, !.ctx = ctx, !.dur = duration]>>
      merged == Append(f.heap, Merge(ctx, updates))
  IN  [f EXCEPT !.heap = merged,
                !.context = Len(merged),
                !.taskEnd = reading,
                !.settled = Pending,
                !.log = f.log \o Now(r, f.idx) \o called
                          \o <<[Ev(r, "succeed", f.idx, task.name) EXCEPT !.msg = message],
                               [Ev(r, "merge", f.idx, task.name) EXCEPT
                                  !.ref = Len(merged), !.ctx = merged[Len(merged)]]>>]

\* Mutant of Succeed: the updates are assigned onto the context object in place,
\* `Object.assign(context, updates)`.
SucceedInPlace(f, r, task, value, reading) ==
  LET updates == Coalesce(value, f.heap)
      duration == Elapsed(reading, f.taskStart)
      ctx == f.heap[f.context]
      message == SuccessMessage(task, ctx, duration)
      called == IF task.onSuccess = "none" THEN <<>>
                ELSE <<[Ev(r, "onSuccess", f.idx, task.name) EXCEPT
                          !.ref = f.context, !.ctx = ctx, !.dur = duration]>>
  IN  [f EXCEPT !.heap = [f.heap EXCEPT ![f.context] = Merge(ctx, updates)],
                !.taskEnd = reading,
                !.settled = Pending,
                !.log = f.log \o Now(r, f.idx) \o called
                          \o <<[Ev(r, "succeed", f.idx, task.name) EXCEPT !.msg = message],
                               [Ev(r, "merge", f.idx, task.name) EXCEPT
                                  !.ref = f.context, !.ctx = Merge(ctx, updates)]>>]

\* Mutant of Succeed: onSuccess and spinner.succeed are called outside of the try block,
\* what they throw is not caught.
SucceedUnguarded(f, r, task, value, reading) ==
  LET updates == Coalesce(value, f.heap)
      duration == Elapsed(reading, f.taskStart)
      ctx == f.heap[f.context]
      called == IF task.onSuccess = "none" THEN <<>>
                ELSE <<[Ev(r, "onSuccess", f.idx, task.name) EXCEPT
                          !.ref = f.context, !.ctx = ctx, !.dur = duration]>>
      merged == Append(f.heap, Merge(ctx, updates))
      thrown == Append(f.errs, NewError("bad format", 0, "callback"))
  IN  IF OnSuccessThrows(task) \/ Breaks(f, r, "succeed")
        THEN [f EXCEPT !.pc = "rejected",
                       !.taskEnd = reading,
                       !.settled = Pending,
                       !.errs = thrown,
                       !.result = Rejected(Len(thrown)),
                       !.log = f.log \o Now(r, f.idx) \o called]
      ELSE
      [f EXCEPT !.heap = merged,
                !.context = Len(merged),
                !.taskEnd = reading,
                !.settled = Pending,
                !.log = f.log \o Now(r, f.idx) \o called
                          \o <<[Ev(r, "succeed", f.idx, task.name) EXCEPT
                                  !.msg = SuccessMessage(task, ctx, duration)],
                               [Ev(r, "merge", f.idx, task.name) EXCEPT
                                  !.ref = Len(merged), !.ctx = merged[Len(merged)]]>>]

\* Mutant of Succeed: the notifier is never told of the success.
SucceedSilent(f, r, task, value, reading) ==
  LET updates == Coalesce(value, f.heap)
      duration == Elapsed(reading, f.taskStart)
      ctx == f.heap[f.context]
      called == IF task.onSuccess = "none" THEN <<>>
                ELSE <<[Ev(r, "onSuccess", f.idx, task.name) EXCEPT
                          !.ref = f.context, !.ctx = ctx, !.dur = duration]>>
      merged == Append(f.heap, Merge(ctx, updates))
  IN  [f EXCEPT !.heap = merged,
                !.context = Len(merged),
                !.taskEnd = reading,
                !.settled = Pending,
                !.log = f.log \o Now(r, f.idx) \o called
                          \o <<[Ev(r, "merge", f.idx, task.name) EXCEPT
                                  !.ref = Len(merged), !.ctx = merged[Len(merged)]]>>]

\* try { ... } after the work's promise was fulfilled with `value`, up to the merge; an
\* exception thrown by onSuccess or by spinner.succeed is inside the try block and is
\* caught like one of the work.
Succeed(f, r, task, value, reading) ==
  LET updates == Coalesce(value, f.heap)
      duration == Elapsed(reading, f.taskStart)
      ctx == f.heap[f.context]
      message == SuccessMessage(task, ctx, duration)
      called == IF task.onSuccess = "none" THEN <<>>
                ELSE <<[Ev(r, "onSuccess", f.idx, task.name) EXCEPT
                          !.ref = f.context, !.ctx = ctx, !.dur = duration]>>
      merged == Append(f.heap, Merge(ctx, updates))
      thrown == Append(f.errs, NewError("bad format", 0, "callback"))
      broken == Append(f.errs, NewError("write EPIPE", 0, "notifier"))
  IN  IF OnSuccessThrows(task)
        THEN Catch([f EXCEPT !.taskEnd = reading,
                             !.settled = Pending,
                             !.errs = thrown,
                             !.log = f.log \o Now(r, f.idx) \o called],
                   r, task, ErrorRef(Len(thrown)))
      ELSE IF Breaks(f, r, "succeed")
        THEN Catch([f EXCEPT !.taskEnd = reading,
                             !.settled = Pending,
                             !.errs = broken,
                             !.log = f.log \o Now(r, f.idx) \o called
                                       \o <<[Ev(r, "succeed", f.idx, task.name) EXCEPT
                                               !.msg = message]>>],
                   r, task, ErrorRef(Len(broken)))
      ELSE
      [f EXCEPT !.heap = merged,
                !.context = Len(merged),
                !.taskEnd = reading,
                !.settled = Pending,
                !.log = f.log \o Now(r, f.idx) \o called
                          \o <<[Ev(r, "succeed", f.idx, task.name) EXCEPT !.msg = message],
                               [Ev(r, "merge", f.idx, task.name) EXCEPT
                                  !.ref = Len(merged), !.ctx = merged[Len(merged)]]>>]

\* Mutant of Store: the position in the list is kept on the pipeline (a counter outside
\* of run), one variable shared by all its runs.
StoreSharedIndex(r, f) ==
  /\ pc' = [pc EXCEPT ![r] = f.pc]
  /\ idx' = [q \in RunIds |-> f.idx]
  /\ current' = [current EXCEPT ![r] = f.task]
  /\ context' = [context EXCEPT ![r] = f.context]
  /\ taskStart' = [taskStart EXCEPT ![r] = f.taskStart]
  /\ taskEnd' = [taskEnd EXCEPT ![r] = f.taskEnd]
  /\ settled' = [settled EXCEPT ![r] = f.settled]
  /\ result' = [result EXCEPT ![r] = f.result]
  /\ inflight' = [inflight EXCEPT ![r] = f.inflight]
  /\ heap' = f.heap
  /\ errs' = f.errs
  /\ log' = f.log

\* Mutant of Store: the running context is kept on the pipeline (`let context` outside
\* of run), one variable shared by all its runs.
StoreShared(r, f) ==
  /\ pc' = [pc EXCEPT ![r] = f.pc]
  /\ idx' = [idx EXCEPT ![r] = f.idx]
  /\ current' = [current EXCEPT ![r] = f.task]
  /\ context' = [q \in RunIds |-> f.context]
  /\ taskStart' = [taskStart EXCEPT ![r] = f.taskStart]
  /\ taskEnd' = [taskEnd EXCEPT ![r] = f.taskEnd]
  /\ settled' = [settled EXCEPT ![r] = f.settled]
  /\ result' = [result EXCEPT ![r] = f.result]
  /\ inflight' = [inflight EXCEPT ![r] = f.inflight]
  /\ heap' = f.heap
  /\ errs' = f.errs
  /\ log' = f.log

\* The state after a synchronous stretch of run r that ended in frame f.
Store(r, f) ==
  /\ pc' = [pc EXCEPT ![r] = f.pc]
  /\ idx' = [idx EXCEPT ![r] = f.idx]
  /\ current' = [current EXCEPT ![r] = f.task]
  /\ context' = [context EXCEPT ![r] = f.context]
  /\ taskStart' = [taskStart EXCEPT ![r] = f.taskStart]
  /\ taskEnd' = [taskEnd EXCEPT ![r] = f.taskEnd]
  /\ settled' = [settled EXCEPT ![r] = f.settled]
  /\ result' = [result EXCEPT ![r] = f.result]
  /\ inflight' = [inflight EXCEPT ![r] = f.inflight]
  /\ heap' = f.heap
  /\ errs' = f.errs
  /\ log' = f.log

HasSettled(r) == pc[r] \in {"resolved", "rejected"}

\* Mutant of Captured: pipe copies the list, `const captured = [...tasks]`.
CapturedCopy(p) == supplied[p]

\* The list the closure of pipeline p refers to: the parameter `tasks` of pipe, which is
\* the caller's array itself.
Captured(p) == tasks[p]

\* ---------------------------------------------------------------- actions
\* The caller invokes run(initialContext) on pipeline pipeOf[r]: the run executes up to
\* its first await, or to its end when no element is a task.
Call(r) ==
  /\ pc[r] = "uncalled"
  /\ r \in caller.runs
  /\ pipeOf[r] \in built
  /\ caller.awaits => \A q \in caller.runs : q < r => HasSettled(q)
  /\ \E t1 \in now..MaxClock : \E t2 \in t1..MaxClock :
       LET f0 == [Frame(r) EXCEPT !.context = initialContext[r],
                                  !.log = log \o Now(r, 0)]
       IN  /\ startTime' = [startTime EXCEPT ![r] = t1]
           /\ Store(r, Advance(f0, r, Captured(pipeOf[r]), 1, t1, t2))
           /\ now' = t2
  /\ UNCHANGED <<tasks, built, supplied, caller, pipeOf, initialContext, workTime,
                 notifier, fileVars>>

\* The promise of a work that run r invoked settles, some time after the invocation (the
\* work's doing, not the executor's): what the work assigns to its argument is assigned, the
\* object the work returns, or the Error it rejects with, is created, and the run that
\* awaits the promise becomes ready to resume.
Settle(r) ==
  \E p \in inflight[r] : \E t \in now..MaxClock :
    LET w == Work(p.task, heap[p.ref])
        written == Assign(heap, p.ref, Writes(p.task, heap[p.ref]))
        returned == IF w.mode = "resolve" /\ w.value.t = "object"
                      THEN Append(written, w.value.v) ELSE written
        thrown == IF w.mode = "reject"
                    THEN Append(errs, NewError(w.message, 0, "task")) ELSE errs
        outcome == CASE w.mode = "resolve" ->
                          Fulfilled(IF w.value.t = "object" THEN ObjRef(Len(returned))
                                    ELSE w.value)
                     [] w.mode = "reject" ->
                          [state |-> "rejected", value |-> ErrorRef(Len(thrown))]
                     [] OTHER -> [state |-> "rejected", value |-> w.value]
        awaited == pc[r] = "awaiting" /\ idx[r] = p.pos
    IN  /\ inflight' = [inflight EXCEPT ![r] = @ \ {p}]
        /\ heap' = returned
        /\ errs' = thrown
        /\ pc' = IF awaited THEN [pc EXCEPT ![r] = "settled"] ELSE pc
        /\ settled' = IF awaited THEN [settled EXCEPT ![r] = outcome] ELSE settled
        /\ now' = t
        /\ workTime' = [workTime EXCEPT ![r] = @ + (t - p.at)]
        /\ UNCHANGED <<tasks, built, supplied, current, caller, pipeOf, initialContext,
                       idx, context, startTime, taskStart, taskEnd, result, log,
                       notifier, fileVars>>

\* Run r resumes after its await with the value the work resolved to: lines 52-56, then
\* the loop up to the next await or the end, unless the try block ended in the catch block.
ResumeFulfilled(r) ==
  /\ pc[r] = "settled"
  /\ settled[r].state = "fulfilled"
  /\ \E t1 \in now..MaxClock : \E t2 \in t1..MaxClock :
       LET list == Captured(pipeOf[r])
           f1 == Succeed(Frame(r), r, current[r], settled[r].value, t1)
       IN  IF f1.pc = "rejected"
             THEN Store(r, f1) /\ now' = t1
             ELSE Store(r, Advance(f1, r, list, idx[r] + 1, startTime[r], t2)) /\ now' = t2
  /\ UNCHANGED <<tasks, built, supplied, caller, pipeOf, initialContext, startTime,
                 workTime, notifier, fileVars>>

\* Run r resumes after its await with the work's rejection: lines 58-63.
ResumeRejected(r) ==
  /\ pc[r] = "settled"
  /\ settled[r].state = "rejected"
  /\ Store(r, Catch([Frame(r) EXCEPT !.settled = Pending], r, current[r], settled[r].value))
  /\ UNCHANGED <<tasks, built, supplied, caller, pipeOf, initialContext, startTime,
                 workTime, now, notifier, fileVars>>

\* Mutant of Pipe: the notifiers of all tasks are created when the pipeline is built.
PipeEager(p) ==
  /\ p \in DOMAIN tasks
  /\ p \notin built
  /\ built' = built \cup {p}
  /\ supplied' = [supplied EXCEPT ![p] = tasks[p]]
  /\ log' = LET found == SelectSeq(tasks[p], LAMBDA element : ~Falsy(element))
            IN  log \o [k \in 1..Len(found) |-> Ev(0, "ora", k, found[k].name)]
  /\ UNCHANGED <<tasks, current, caller, pipeOf, initialContext, pc, idx, context,
                 startTime, taskStart, taskEnd, settled, result, inflight, workTime, heap,
                 errs, now, notifier, fileVars>>

\* pipe(tasks): the pipeline is constructed from the caller's list. Nothing is looked at,
\* nothing is called; the closure keeps the parameter.
Pipe(p) ==
  /\ p \in DOMAIN tasks
  /\ p \notin built
  /\ built' = built \cup {p}
  /\ supplied' = [supplied EXCEPT ![p] = tasks[p]]
  /\ UNCHANGED <<tasks, current, caller, pipeOf, initialContext, pc, idx, context,
                 startTime, taskStart, taskEnd, settled, result, inflight, workTime, heap,
                 errs, now, log, notifier, fileVars>>

\* What the caller, or a work, may do to a list: push an element, pop the last one, or
\* assign another element to a position.
EditElements == {MarkerFalse, TaskA, TaskD}

Edits(list) ==
  ({Append(list, x) : x \in EditElements}
     \cup {SubSeq(list, 1, Len(list) - 1) : n \in {Len(list)} \ {0}}
     \cup {[list EXCEPT ![i] = x] : i \in 1..Len(list), x \in EditElements}) \ {list}

\* The list pipeline p was built from is modified, once, after pipe has returned: before
\* a run, during one, or after.
EditList(p) ==
  /\ p \in built
  /\ tasks[p] = supplied[p]
  /\ \E list \in Edits(tasks[p]) : tasks' = [tasks EXCEPT ![p] = list]
  /\ UNCHANGED <<built, supplied, current, caller, pipeOf, initialContext, pc, idx,
                 context, startTime, taskStart, taskEnd, settled, result, inflight,
                 workTime, heap, errs, now, log, notifier, fileVars>>

\* After run r has resolved, the caller assigns to a key of the initial context object
\* or of the context object of the Result: `object.c = { y: 2 }`.
CallerWrites(r) ==
  /\ pc[r] = "resolved"
  /\ \E ref \in {initialContext[r], result[r].context} :
       /\ heap[ref] # ([c |-> V2] @@ heap[ref])
       /\ heap' = Assign(heap, ref, [c |-> V2])
  /\ UNCHANGED <<tasks, built, supplied, current, caller, pipeOf, initialContext, pc,
                 idx, context, startTime, taskStart, taskEnd, settled, result, inflight,
                 workTime, notifier, errs, now, log, fileVars>>

\* ---------------------------------------------------------------- specification
InitialContexts == {EmptyCtx, [a |-> V3, c |-> V1]}

\* No run was invoked yet; run r will be handed the context object r.
InitRuns ==
  /\ initialContext = [r \in RunIds |-> r]
  /\ pc = [r \in RunIds |-> "uncalled"]
  /\ idx = [r \in RunIds |-> 0]
  /\ current = [r \in RunIds |-> MarkerUndefined]
  /\ context = [r \in RunIds |-> 0]
  /\ startTime = [r \in RunIds |-> 0]
  /\ taskStart = [r \in RunIds |-> 0]
  /\ taskEnd = [r \in RunIds |-> 0]
  /\ workTime = [r \in RunIds |-> 0]
  /\ settled = [r \in RunIds |-> Pending]
  /\ result = [r \in RunIds |-> NoResult]
  /\ inflight = [r \in RunIds |-> {}]
  /\ errs = <<>>
  /\ log = <<>>

\* Every pipeline was constructed, and its list is as it was then.
InitBuilt ==
  /\ built = DOMAIN tasks
  /\ supplied = tasks

\* Every call on a notifier returns normally.
InitNotifier == notifier = [call |-> "works", from |-> 1]

NotListed == [called |-> FALSE, lines |-> <<>>, text |-> ""]

\* fileList is not part of what happens.
InitNoFiles ==
  /\ tree = <<>>
  /\ pattern = "**/*"
  /\ colors = FALSE
  /\ listing = NotListed

\* What the lists of Spec are made of: every task, `false` and `undefined` (all three
\* absence markers are in the lists of SpecPair, `null` is in those of SpecThrow).
SpecElements == {MarkerFalse, MarkerUndefined} \cup Tasks

\* One pipeline, built from any list; the caller invokes run once.
Init ==
  /\ \E list \in ListsUpTo(SpecElements, MaxTasks) : tasks = <<list>>
  /\ \E c \in InitialContexts : heap = <<c, c>>
  /\ caller = [runs |-> {1}, awaits |-> TRUE]
  /\ pipeOf = [r \in RunIds |-> 1]
  /\ now = 0
  /\ InitBuilt
  /\ InitRuns
  /\ InitNotifier
  /\ InitNoFiles

\* The list with its absence markers removed.
Compact(list) == SelectSeq(list, LAMBDA element : element.kind = "task")

\* Two pipelines, the second built from the first one's list without its markers; the
\* caller runs the first, awaits it, and runs the second on an equal initial context.
\* The clock stands still meanwhile: timings are no part of what is compared.
InitPair ==
  /\ \E list \in ListsUpTo(Elements, MaxTasks) : tasks = <<list, Compact(list)>>
  /\ \E c \in InitialContexts : heap = <<c, c>>
  /\ caller = [runs |-> {1, 2}, awaits |-> TRUE]
  /\ pipeOf = [r \in RunIds |-> r]
  /\ now = MaxClock
  /\ InitBuilt
  /\ InitRuns
  /\ InitNotifier
  /\ InitNoFiles

\* One pipeline whose list may hold tasks that fail in each way: rejecting or throwing,
\* with an Error or with another value, with or without onError.
ThrowElements == {MarkerNull, TaskA, TaskD, TaskE, TaskF, TaskG}

InitThrow ==
  /\ \E list \in ListsUpTo(ThrowElements, MaxTasks) : tasks = <<list>>
  /\ \E c \in InitialContexts : heap = <<c, c>>
  /\ caller = [runs |-> {1}, awaits |-> TRUE]
  /\ pipeOf = [r \in RunIds |-> 1]
  /\ now = 0
  /\ InitBuilt
  /\ InitRuns
  /\ InitNotifier
  /\ InitNoFiles

\* One pipeline; the caller invokes run twice on different context objects without
\* awaiting the first (Promise.all([p.run(c1), p.run(c2)])). The clock stands still.
ConcElements == {MarkerFalse, TaskA, TaskB, TaskD}

InitConc ==
  /\ \E list \in ListsUpTo(ConcElements, MaxConcTasks) : tasks = <<list>>
  /\ \E c1 \in InitialContexts : \E c2 \in InitialContexts \ {c1} : heap = <<c1, c2>>
  /\ caller = [runs |-> {1, 2}, awaits |-> FALSE]
  /\ pipeOf = [r \in RunIds |-> 1]
  /\ now = MaxClock
  /\ InitBuilt
  /\ InitRuns
  /\ InitNotifier
  /\ InitNoFiles

\* One pipeline whose list may hold a task whose onSuccess callback throws and a task
\* whose onError callback throws, among tasks that succeed and one that fails; the
\* notifiers work, or one of their calls throws; one run. The clock stands still.
CallbackElements == {MarkerFalse, TaskA, TaskD, TaskH, TaskI}

\* What the notifiers may do: every call returns, or, from the first or a later notifier
\* of the run on, one of the calls throws each time: ora(name), start(), succeed(message)
\* or fail(message).
NotifierModes ==
  {[call |-> "works", from |-> 1]}
    \cup [call : {"create", "start", "succeed", "fail"}, from : 1..(MaxTasks - 1)]

InitCallbacks ==
  /\ \E list \in ListsUpTo(CallbackElements, MaxTasks) : tasks = <<list>>
  /\ \E c \in InitialContexts : heap = <<c, c>>
  /\ caller = [runs |-> {1}, awaits |-> TRUE]
  /\ pipeOf = [r \in RunIds |-> 1]
  /\ now = MaxClock
  /\ InitBuilt
  /\ InitRuns
  /\ notifier \in NotifierModes
  /\ InitNoFiles

\* One pipeline whose list may hold a task whose work modifies, in place, the context it
\* is handed; one run. The second context object is an equal copy that no run is handed.
\* The clock stands still.
MutateElements == {MarkerFalse, TaskA, TaskB, TaskD, TaskM}

InitMutate ==
  /\ \E list \in ListsUpTo(MutateElements, MaxTasks) : tasks = <<list>>
  /\ \E c \in InitialContexts : heap = <<c, c>>
  /\ caller = [runs |-> {1}, awaits |-> TRUE]
  /\ pipeOf = [r \in RunIds |-> 1]
  /\ now = MaxClock
  /\ InitBuilt
  /\ InitRuns
  /\ InitNotifier
  /\ InitNoFiles

\* The caller holds a list and has not yet built a pipeline from it: it calls pipe, may
\* modify the list afterwards, and invokes run once. The clock stands still.
CallerElements == {MarkerFalse, TaskA, TaskB, TaskD}

InitCaller ==
  /\ \E list \in ListsUpTo(CallerElements, MaxListLen) : tasks = <<list>>
  /\ built = {}
  /\ supplied = <<<<>>>>
  /\ \E c \in InitialContexts : heap = <<c, c>>
  /\ caller = [runs |-> {1}, awaits |-> TRUE]
  /\ pipeOf = [r \in RunIds |-> 1]
  /\ now = MaxClock
  /\ InitRuns
  /\ InitNotifier
  /\ InitNoFiles

\* One pipeline of tasks that succeed, reject or throw, and markers; one run on the empty
\* context. The clock stands still.
FairElements == {MarkerFalse, TaskA, TaskD, TaskE}

InitFair ==
  /\ \E list \in ListsUpTo(FairElements, MaxTasks) : tasks = <<list>>
  /\ heap = <<EmptyCtx, EmptyCtx>>
  /\ caller = [runs |-> {1}, awaits |-> TRUE]
  /\ pipeOf = [r \in RunIds |-> 1]
  /\ now = MaxClock
  /\ InitBuilt
  /\ InitRuns
  /\ InitNotifier
  /\ InitNoFiles

\* One pipeline whose works resolve to an object, to undefined, to null or to a number,
\* or are rejected; one run. The clock stands still.
NullElements == {MarkerFalse, TaskA, TaskB, TaskC, TaskD, TaskN, TaskZ}

InitNull ==
  /\ \E list \in ListsUpTo(NullElements, MaxTasks) : tasks = <<list>>
  /\ \E c \in InitialContexts : heap = <<c, c>>
  /\ caller = [runs |-> {1}, awaits |-> TRUE]
  /\ pipeOf = [r \in RunIds |-> 1]
  /\ now = MaxClock
  /\ InitBuilt
  /\ InitRuns
  /\ InitNotifier
  /\ InitNoFiles

\* One pipeline of markers and of tasks that return an update, return nothing or fail;
\* one run, after which the caller goes on to use the objects. The clock stands still.
AfterElements == {MarkerFalse, MarkerUndefined, TaskA, TaskC, TaskD}

InitAfter ==
  /\ \E list \in ListsUpTo(AfterElements, MaxTasks) : tasks = <<list>>
  /\ \E c \in InitialContexts : heap = <<c, c>>
  /\ caller = [runs |-> {1}, awaits |-> TRUE]
  /\ pipeOf = [r \in RunIds |-> 1]
  /\ now = MaxClock
  /\ InitBuilt
  /\ InitRuns
  /\ InitNotifier
  /\ InitNoFiles

\* fileList(baseDir, pattern) is called once on a directory tree that holds some files.
ListFiles ==
  /\ ~listing.called
  /\ listing' = [called |-> TRUE] @@ FileList(tree, pattern, colors)
  /\ UNCHANGED <<tasks, built, supplied, current, caller, pipeOf, initialContext, pc,
                 idx, context, startTime, taskStart, taskEnd, settled, result, inflight,
                 workTime, notifier, heap, errs, now, log, tree, pattern, colors>>

\* Any files in any crawl order, any pattern, with and without colors; no pipeline.
InitFiles ==
  /\ \E files \in ListsUpTo(FileEntries, MaxFiles) :
       /\ \A i, j \in 1..Len(files) : i # j => files[i] # files[j]
       /\ tree = files
  /\ pattern \in Patterns
  /\ colors \in BOOLEAN
  /\ listing = NotListed
  /\ tasks = <<>>
  /\ heap = <<>>
  /\ caller = [runs |-> {}, awaits |-> TRUE]
  /\ pipeOf = [r \in RunIds |-> 1]
  /\ now = 0
  /\ InitBuilt
  /\ InitRuns
  /\ InitNotifier

NextFiles == ListFiles

SpecFiles == InitFiles /\ [][NextFiles]_vars

Next ==
  \E r \in RunIds :
    \/ Call(r)
    \/ Settle(r)
    \/ ResumeFulfilled(r)
    \/ ResumeRejected(r)

Spec == Init /\ [][Next]_vars

SpecNull == InitNull /\ [][Next]_vars

NextAfter ==
  \/ \E r \in RunIds : CallerWrites(r)
  \/ Next

SpecAfter == InitAfter /\ [][NextAfter]_vars

NextCaller ==
  \/ \E p \in DOMAIN tasks : Pipe(p) \/ EditList(p)
  \/ Next

SpecCaller == InitCaller /\ [][NextCaller]_vars

\* ---------------------------------------------------------------- reading the log
\* The calls made on behalf of run r whose op is in ops, in order.
Calls(r, ops) == SelectSeq(log, LAMBDA e : e.run = r /\ e.op \in ops)

WorkCalls(r) == Calls(r, {"work"})

ListOf(r) == tasks[pipeOf[r]]

\* The positions of the task descriptors of a list, in list order.
TaskPositions(list) ==
  SelectSeq([i \in 1..Len(list) |-> i], LAMBDA i : list[i].kind = "task")

IsPrefix(s, t) == Len(s) <= Len(t) /\ \A i \in 1..Len(s) : s[i] = t[i]

\* ---------------------------------------------------------------- C1
\* C1: within one run the works of the non-skipped tasks are invoked in list order, a work
\* is invoked only when every work invoked before it has settled, and at most one work of
\* the run is in flight.
C1_SequentialOrder ==
  \A r \in RunIds :
    LET ws == WorkCalls(r)
        expected == TaskPositions(ListOf(r))
    IN  /\ IsPrefix([i \in 1..Len(ws) |-> ws[i].pos], expected)
        /\ pc[r] = "resolved" => Len(ws) = Len(expected)
        /\ Cardinality(inflight[r]) <= 1
        /\ \A p \in inflight[r] : Len(ws) > 0 /\ p.pos = ws[Len(ws)].pos

\* The second work of a list with a marker before it is in flight.
C1_Witness ==
  /\ Len(WorkCalls(1)) = 2
  /\ inflight[1] # {}
  /\ \E i \in 1..idx[1] : Falsy(ListOf(1)[i])

\* ---------------------------------------------------------------- C2
\* The work of the task at position k of run r's list failed: its promise was rejected and
\* the run is about to handle that, or the failure was handled and notified.
WorkFailed(r, k) ==
  \/ pc[r] = "settled" /\ settled[r].state = "rejected" /\ idx[r] = k
  \/ \E i \in 1..Len(log) : log[i].run = r /\ log[i].op = "fail" /\ log[i].pos = k

\* C2: once the work at position k failed, no notifier is created or started and no work
\* is invoked for a later element, the run never resolves, and it rejects when it handles
\* the failure.
C2_FirstFailureHalt ==
  \A r \in RunIds : \A k \in 1..Len(ListOf(r)) :
    WorkFailed(r, k) =>
      /\ \A i \in 1..Len(log) :
           log[i].run = r /\ log[i].pos > k => log[i].op \notin {"ora", "start", "work"}
      /\ pc[r] \in {"settled", "rejected"}
      /\ Calls(r, {"fail"}) # <<>> => pc[r] = "rejected" /\ result[r].t = "rejected"
      /\ Len(WorkCalls(r)) = Cardinality({j \in 1..k : ~Falsy(ListOf(r)[j])})

\* A succeeds, the second task fails, the third is a task that never ran.
C2_Witness ==
  /\ Len(ListOf(1)) = 3
  /\ \A j \in 1..3 : ~Falsy(ListOf(1)[j])
  /\ pc[1] = "rejected"
  /\ idx[1] = 2
  /\ Len(Calls(1, {"succeed"})) = 1

\* ---------------------------------------------------------------- C3
\* C3: when the work of a task named N fails with an Error of message M, run rejects with
\* an Error whose message is `Task "N" failed: M`.
C3_ErrorMessageShape ==
  \A r \in RunIds :
    pc[r] = "rejected" =>
      LET task == ListOf(r)[idx[r]]
          M == Work(task, heap[context[r]]).message
          rejection == errs[result[r].error]
      IN  /\ rejection.message = "Task \"" \o task.name \o "\" failed: " \o M
          /\ task = TaskD => rejection.message = "Task \"D\" failed: boom"
          /\ task = TaskE => rejection.message = "Task \"E\" failed: bang"

\* The work of D rejected with Error("boom") and the run rejected.
C3_Witness ==
  /\ pc[1] = "rejected"
  /\ ListOf(1)[idx[1]] = TaskD
  /\ errs[result[1].error].message = "Task \"D\" failed: boom"

\* ---------------------------------------------------------------- C4
\* C4: the rejection's cause is the very Error object the work threw, which is neither
\* copied nor wrapped a second time: one composite Error is created per failure.
C4_CausePreserved ==
  \A r \in RunIds :
    pc[r] = "rejected" =>
      LET rejection == errs[result[r].error]
          thrown == {i \in 1..Len(errs) : errs[i].origin = "task"}
      IN  /\ rejection.origin = "composite"
          /\ thrown = {rejection.cause}
          /\ errs[rejection.cause].cause = 0
          /\ Cardinality({i \in 1..Len(errs) : errs[i].origin # "task"}) = 1

\* The work of E threw synchronously and the run rejected with that Error as cause.
C4_Witness ==
  /\ pc[1] = "rejected"
  /\ ListOf(1)[idx[1]] = TaskE
  /\ errs[errs[result[1].error].cause].message = "bang"

\* ---------------------------------------------------------------- what the works returned
\* What the work invoked by call e of run r resolved to, given the context it was handed.
ReturnedBy(r, e) == Work(ListOf(r)[e.pos], e.ctx).value

\* The keys of the update a work returned (none when it returned nothing).
KeysOf(value) == IF value.t = "object" THEN DOMAIN value.v ELSE {}

Max(S) == CHOOSE n \in S : \A m \in S : m <= n

\* ---------------------------------------------------------------- C5
\* C5: in the final context every key that some executed task returned has the value
\* returned by the last such task in list order, whole.
C5_LastWriterWins ==
  \A r \in RunIds :
    pc[r] = "resolved" =>
      LET ws == WorkCalls(r)
          final == heap[result[r].context]
      IN  \A k \in Keys :
            LET writers == {n \in 1..Len(ws) : k \in KeysOf(ReturnedBy(r, ws[n]))}
            IN  writers # {} =>
                  /\ k \in DOMAIN final
                  /\ final[k] = ReturnedBy(r, ws[Max(writers)]).v[k]

\* Two executed tasks returned different values for "a" and a third key came from the
\* earlier one only.
C5_Witness ==
  /\ pc[1] = "resolved"
  /\ LET ws == WorkCalls(1)
     IN  /\ Len(ws) = 2
         /\ ListOf(1)[ws[1].pos] = TaskB
         /\ ListOf(1)[ws[2].pos] = TaskA
         /\ heap[result[1].context]["a"] = V1
         /\ "b" \in DOMAIN heap[result[1].context]

\* ---------------------------------------------------------------- C6
\* C6: when a run resolves, the keys of the final context are the keys of the initial
\* context together with the keys the executed tasks returned, and an initial key that no
\* task returned keeps its initial value.
C6_KeySetUnion ==
  \A r \in RunIds :
    pc[r] = "resolved" =>
      LET ws == WorkCalls(r)
          initial == heap[initialContext[r]]
          final == heap[result[r].context]
          returned == UNION {KeysOf(ReturnedBy(r, ws[n])) : n \in 1..Len(ws)}
      IN  /\ DOMAIN final = DOMAIN initial \cup returned
          /\ \A k \in DOMAIN initial \ returned : final[k] = initial[k]

\* The initial context had "a" and "c", the tasks added "b" and replaced "a".
C6_Witness ==
  /\ pc[1] = "resolved"
  /\ DOMAIN heap[initialContext[1]] = {"a", "c"}
  /\ DOMAIN heap[result[1].context] = {"a", "b", "c"}
  /\ heap[result[1].context]["c"] = V1
  /\ heap[result[1].context]["a"] # V3

\* ---------------------------------------------------------------- C7
\* The initial context of run r overlaid, in order, with what the first m works it invoked
\* returned.
RECURSIVE Accumulated(_, _)
Accumulated(r, m) ==
  IF m = 0 THEN heap[initialContext[r]]
  ELSE LET returned == ReturnedBy(r, WorkCalls(r)[m])
       IN  IF returned.t = "object"
             THEN returned.v @@ Accumulated(r, m - 1)
             ELSE Accumulated(r, m - 1)

\* C7: the context handed to the N-th work of a run is the initial context merged, in
\* order, with the updates returned by the works 1..N-1, and nothing else.
C7_ContextSeenByWork ==
  \A r \in RunIds :
    LET ws == WorkCalls(r)
    IN  \A n \in 1..Len(ws) : ws[n].ctx = Accumulated(r, n - 1)

\* A third work was handed a context that two earlier tasks had each changed.
C7_Witness ==
  LET ws == WorkCalls(1)
  IN  /\ Len(ws) = 3
      /\ ws[1].ctx # ws[2].ctx
      /\ ws[2].ctx # ws[3].ctx
      /\ ws[3].ctx # heap[initialContext[1]]

\* ---------------------------------------------------------------- C9
\* C9: a run over a list without any task resolves at once with the initial context,
\* key for key, and a duration >= 0, and never touches the notifier.
C9_EmptyPipelineIdentity ==
  \A r \in RunIds :
    (pc[r] # "uncalled" /\ \A i \in 1..Len(ListOf(r)) : ListOf(r)[i] \in Markers) =>
      /\ pc[r] = "resolved"
      /\ result[r].t = "resolved"
      /\ heap[result[r].context] = heap[initialContext[r]]
      /\ result[r].duration >= 0
      /\ Calls(r, {"ora", "start", "succeed", "fail", "work"}) = <<>>

\* A list of absence markers only was run on a non-empty context and took some time.
C9_Witness ==
  /\ Len(ListOf(1)) >= 2
  /\ \A i \in 1..Len(ListOf(1)) : ListOf(1)[i] \in Markers
  /\ pc[1] = "resolved"
  /\ result[1].duration > 0
  /\ heap[result[1].context] = [a |-> V3, c |-> V1]

\* ---------------------------------------------------------------- C10
\* The work invoked by the n-th work call of run r completed normally and was notified.
Completed(r, n) ==
  \E i \in 1..Len(log) :
    log[i].run = r /\ log[i].op = "succeed" /\ log[i].pos = WorkCalls(r)[n].pos

\* C10: after a task whose work returned nothing, the running context (what the next work
\* is handed, or what the Result holds) has the keys and values that task was handed.
C10_VoidKeepsContext ==
  \A r \in RunIds :
    LET ws == WorkCalls(r)
    IN  \A n \in 1..Len(ws) :
          (ReturnedBy(r, ws[n]).t = "undefined" /\ Completed(r, n)) =>
            IF n < Len(ws)
              THEN ws[n + 1].ctx = ws[n].ctx
              ELSE /\ heap[context[r]] = ws[n].ctx
                   /\ pc[r] = "resolved" => heap[result[r].context] = ws[n].ctx

\* A void task ran on a non-empty context between two other tasks.
C10_Witness ==
  LET ws == WorkCalls(1)
  IN  /\ Len(ws) = 3
      /\ ListOf(1)[ws[2].pos] = TaskC
      /\ ws[2].ctx # EmptyCtx
      /\ ws[3].ctx = ws[2].ctx
      /\ ws[2].ctx # ws[1].ctx

SpecPair == InitPair /\ [][Next]_vars

\* ---------------------------------------------------------------- C8
\* What an observer of run r sees: its notifier calls, callback calls and work
\* invocations in order, each with the task's name, the context handed over and the
\* message, but without list positions, object references and timings.
Observed(r) ==
  LET calls == Calls(r, {"ora", "start", "work", "onSuccess", "succeed", "onError", "fail"})
  IN  [i \in 1..Len(calls) |->
         [op |-> calls[i].op, name |-> calls[i].name, ctx |-> calls[i].ctx, msg |-> calls[i].msg]]

\* How run r ended: the final context, or the rejection's message and its cause's message.
Outcome(r) ==
  IF result[r].t = "resolved"
    THEN [t |-> "resolved", context |-> heap[result[r].context], message |-> "", cause |-> ""]
    ELSE [t |-> result[r].t, context |-> EmptyCtx,
          message |-> errs[result[r].error].message,
          cause |-> errs[errs[result[r].error].cause].message]

\* C8: a list with absence markers among its tasks and the same list without them give the
\* same outcome and the same sequence of notifier calls and work invocations.
C8_MarkersAreSkipped ==
  (HasSettled(1) /\ HasSettled(2)) =>
    /\ Outcome(1) = Outcome(2)
    /\ Observed(1) = Observed(2)

\* Both runs ended, the first over a list with a marker between two executed tasks.
C8_Witness ==
  /\ HasSettled(1) /\ HasSettled(2)
  /\ tasks[1] # tasks[2]
  /\ Len(WorkCalls(2)) >= 2
  /\ \E i \in 2..(Len(tasks[1]) - 1) :
       /\ tasks[1][i] \in Markers
       /\ tasks[1][i - 1] \notin Markers
       /\ tasks[1][i + 1] \notin Markers

\* ---------------------------------------------------------------- C11
\* The call of op made for the element at position pos of run r's list.
CallAt(r, op, pos) ==
  LET found == SelectSeq(log, LAMBDA e : e.run = r /\ e.op = op /\ e.pos = pos)
  IN  found[1]

\* C11: onSuccess is handed the very context object the task's work was handed, with the
\* keys and values it had then: for every key the work returned, onSuccess sees the value
\* from before the merge (or no such key), and the message shown is computed from it.
C11_OnSuccessSeesPreUpdate ==
  \A i \in 1..Len(log) :
    log[i].op = "onSuccess" =>
      LET e == log[i]
          w == CallAt(e.run, "work", e.pos)
      IN  /\ e.ref = w.ref
          /\ e.ctx = w.ctx
          /\ \A k \in KeysOf(ReturnedBy(e.run, w)) :
                IF k \in DOMAIN w.ctx THEN e.ctx[k] = w.ctx[k] ELSE k \notin DOMAIN e.ctx
          /\ \A j \in (i + 1)..Len(log) :
                (log[j].run = e.run /\ log[j].op = "succeed" /\ log[j].pos = e.pos) =>
                  log[j].msg = (IF "a" \in DOMAIN w.ctx /\ w.ctx["a"] = V3 THEN "a.x=3"
                                ELSE IF "a" \in DOMAIN w.ctx /\ w.ctx["a"] = V1 THEN "a.x=1"
                                ELSE "a.x=undefined")

\* B replaced a = {x: 3} by {y: 2}; its onSuccess saw {x: 3} and "a.x=3" was shown.
C11_Witness ==
  /\ \E i \in 1..(Len(log) - 1) :
       /\ log[i].op = "onSuccess"
       /\ log[i].ctx = [a |-> V3, c |-> V1]
       /\ log[i + 1].op = "succeed"
       /\ log[i + 1].msg = "a.x=3"
  /\ pc[1] = "resolved"
  /\ heap[result[1].context] = [a |-> V2, b |-> V3, c |-> V1]

\* ---------------------------------------------------------------- failures of every kind
SpecThrow == InitThrow /\ [][Next]_vars

\* ---------------------------------------------------------------- C12
\* C12: every work that completed normally is followed by one succeed call; it is made
\* with the task's name when the task has no onSuccess (and then no callback is called),
\* else with the string the onSuccess call just before it returned.
C12_SuccessMessage ==
  /\ \A r \in RunIds :
       LET ws == WorkCalls(r)
       IN  \A n \in 1..Len(ws) :
             (n < Len(ws) \/ pc[r] = "resolved") =>
               Len(SelectSeq(log, LAMBDA e : e.run = r /\ e.op = "succeed"
                                              /\ e.pos = ws[n].pos)) = 1
  /\ \A i \in 1..Len(log) :
       log[i].op = "succeed" =>
         LET e == log[i]
             task == ListOf(e.run)[e.pos]
             before == log[i - 1]
         IN  IF task.onSuccess = "none"
               THEN e.msg = task.name /\ before.op = "now"
               ELSE /\ before.op = "onSuccess" /\ before.run = e.run /\ before.pos = e.pos
                    /\ e.msg = OnSuccess(task, before.ctx, before.dur)
                    /\ e.msg \in {"a.x=1", "a.x=3", "a.x=undefined"}

\* A (no onSuccess) and then B (onSuccess) completed: "A" and "a.x=1" were shown.
C12_Witness ==
  /\ pc[1] = "resolved"
  /\ LET shown == Calls(1, {"succeed"})
     IN  /\ Len(shown) = 2
         /\ shown[1].msg = "A" /\ ListOf(1)[shown[1].pos] = TaskA
         /\ shown[2].msg = "a.x=1" /\ ListOf(1)[shown[2].pos] = TaskB

\* ---------------------------------------------------------------- C13
\* C13: every work that failed is followed by one fail call; it is made with the task's
\* name when the task has no onError (and then no callback is called), else with the
\* string returned by the onError call just before it, which was handed the normalized
\* Error (the Error that becomes the rejection's cause).
C13_FailureMessage ==
  /\ \A r \in RunIds :
       pc[r] = "rejected" =>
         /\ Len(Calls(r, {"fail"})) = 1
         /\ Calls(r, {"fail"})[1].pos = idx[r]
  /\ \A i \in 1..Len(log) :
       log[i].op = "fail" =>
         LET e == log[i]
             task == ListOf(e.run)[e.pos]
             before == log[i - 1]
         IN  IF task.onError = "none"
               THEN e.msg = task.name /\ before.op # "onError"
               ELSE /\ before.op = "onError" /\ before.run = e.run /\ before.pos = e.pos
                    /\ e.msg = OnError(task, errs[before.ref])
                    /\ pc[e.run] = "rejected" => errs[result[e.run].error].cause = before.ref
                    /\ task = TaskD => e.msg = "Custom error: boom"
                    /\ task = TaskF => e.msg = "Custom error: 42"

\* D's work rejected after A completed: onError was called and its text was shown.
C13_Witness ==
  /\ pc[1] = "rejected"
  /\ ListOf(1)[idx[1]] = TaskD
  /\ Len(Calls(1, {"succeed"})) = 1
  /\ Len(Calls(1, {"onError"})) = 1
  /\ Calls(1, {"fail"})[1].msg = "Custom error: boom"

C15_NonErrorIsWrapped ==
  \A r \in RunIds :
    (pc[r] = "rejected" /\ ListOf(r)[idx[r]].run \in {"rejectValue", "throwValue"}) =>
      LET task == ListOf(r)[idx[r]]
          V == Work(task, heap[context[r]]).value
          text == IF V = Num(42) THEN "42" ELSE "null"
          rejection == errs[result[r].error]
          wrapping == rejection.cause
      IN  /\ Len(errs) = 2 /\ wrapping = 1 /\ result[r].error = 2
          /\ errs[wrapping] = NewError(text, 0, "normalize")
          /\ rejection.message = "Task \"" \o task.name \o "\" failed: " \o text
          /\ task.onError # "none" =>
                /\ Len(Calls(r, {"onError"})) = 1
                /\ Calls(r, {"onError"})[1].ref = wrapping
                /\ Calls(r, {"fail"})[1].msg = "Custom error: " \o text

\* The work of F rejected with 42 after A completed; onError was handed Error("42").
C15_Witness ==
  /\ pc[1] = "rejected"
  /\ ListOf(1)[idx[1]] = TaskF
  /\ Len(Calls(1, {"succeed"})) = 1
  /\ errs[errs[result[1].error].cause] = NewError("42", 0, "normalize")
  /\ errs[result[1].error].message = "Task \"F\" failed: 42"
  /\ errs[Calls(1, {"onError"})[1].ref].message = "42"

\* ---------------------------------------------------------------- C16
\* C16: when a run resolves, the Result's duration is the clock reading taken after the
\* last element minus the reading taken when run was invoked; the clock never going
\* back, it is at least 0 and at least the time the works of the run took in total.
C16_TotalDuration ==
  [][\A r \in RunIds :
       (pc[r] # "resolved" /\ pc'[r] = "resolved") =>
         /\ result'[r].duration = now' - startTime'[r]
         /\ result'[r].duration >= 0
         /\ result'[r].duration >= workTime'[r]]_vars

\* Two works ran, they took 2 ms together, and the run resolved with duration 2.
C16_Witness ==
  /\ pc[1] = "resolved"
  /\ Len(WorkCalls(1)) = 2
  /\ workTime[1] = 2
  /\ taskStart[1] - startTime[1] = 1
  /\ result[1].duration = 2

\* ---------------------------------------------------------------- C17
\* C17: the duration handed to onSuccess is the reading taken after the task's work
\* settled minus the reading taken when the task started, not the time since the run
\* started; it is at least the time the work took and at most the Result's duration.
C17_TaskDuration ==
  [][\A r \in RunIds :
       LET handed == SelectSeq(SubSeq(log', Len(log) + 1, Len(log')),
                               LAMBDA e : e.run = r /\ e.op = "onSuccess")
       IN  /\ \A i \in 1..Len(handed) :
                /\ handed[i].dur = taskEnd'[r] - taskStart[r]
                /\ handed[i].dur >= now - taskStart[r]
           /\ (pc[r] # "resolved" /\ pc'[r] = "resolved") =>
                \A i \in 1..Len(log') :
                  (log'[i].run = r /\ log'[i].op = "onSuccess") =>
                    log'[i].dur <= result'[r].duration]_vars

\* B started 1 ms into the run and its work took 1 ms: onSuccess was handed 1, not 2.
C17_Witness ==
  /\ pc[1] = "resolved"
  /\ ListOf(1) = <<TaskA, TaskB>>
  /\ taskStart[1] - startTime[1] = 1
  /\ taskEnd[1] - startTime[1] = 2
  /\ LET handed == Calls(1, {"onSuccess"}) IN handed[Len(handed)].dur = 1

\* ---------------------------------------------------------------- C18
SpecConc == InitConc /\ [][Next]_vars

\* How a run of list from element i on ends when it is the only run: context c is
\* threaded through the works in list order up to the first failure.
RECURSIVE Alone(_, _, _)
Alone(list, i, c) ==
  IF i > Len(list)
    THEN [t |-> "resolved", context |-> c, message |-> "", cause |-> ""]
  ELSE IF list[i].kind # "task" THEN Alone(list, i + 1, c)
  ELSE LET w == Work(list[i], c)
       IN  IF w.mode = "resolve"
             THEN Alone(list, i + 1, IF w.value.t = "object" THEN w.value.v @@ c ELSE c)
             ELSE [t |-> "rejected", context |-> EmptyCtx,
                   message |-> "Task \"" \o list[i].name \o "\" failed: " \o w.message,
                   cause |-> w.message]

\* C18: runs of one pipeline that overlap in time are independent: every work of a run is
\* handed that run's own initial context merged with that run's own earlier updates, each
\* run ends as it would have ended alone, and the pipeline's list is never changed.
C18_RunsAreIndependent ==
  /\ [](\A r \in RunIds :
          /\ \A n \in 1..Len(WorkCalls(r)) : WorkCalls(r)[n].ctx = Accumulated(r, n - 1)
          /\ HasSettled(r) => Outcome(r) = Alone(ListOf(r), 1, heap[initialContext[r]]))
  /\ [][tasks' = tasks]_vars

\* Both runs ended differently after their steps alternated: the second run was invoked
\* and resumed while the first was suspended, and the first resumed after that.
C18_Witness ==
  /\ HasSettled(1) /\ HasSettled(2)
  /\ Outcome(1) # Outcome(2)
  /\ Len(WorkCalls(1)) = 2 /\ Len(WorkCalls(2)) = 2
  /\ \E i, j, k \in 1..Len(log) :
       /\ i < j /\ j < k
       /\ log[i].run = 1 /\ log[i].op = "work"
       /\ log[j].run = 2 /\ log[j].op = "succeed"
       /\ log[k].run = 1 /\ log[k].op = "succeed" /\ log[k].pos = log[i].pos

\* ---------------------------------------------------------------- C19
\* C19: no step changes an object that exists: the caller's initial context object, the
\* context a task was handed and the updates object a work returned keep their keys and
\* values for good, whether the run succeeds or fails; and every merge (one per completed
\* work) makes the running context a newly created object.
C19_NoMutationInPlace ==
  [][/\ Len(heap') >= Len(heap)
     /\ \A ref \in 1..Len(heap) : heap'[ref] = heap[ref]
     /\ \A r \in RunIds :
          Len(Calls(r, {"succeed"})') > Len(Calls(r, {"succeed"})) =>
            /\ context'[r] \in (Len(heap) + 1)..Len(heap')
            /\ \A q \in RunIds : context'[r] # initialContext[q]
            /\ \A e \in {settled[r].value} : e.t = "object" => context'[r] # e.ref]_vars

\* A run failed after two merges: the initial context object still holds what it held,
\* the object the first work returned too, and the running context is another object.
C19_Witness ==
  /\ pc[1] = "rejected"
  /\ Len(Calls(1, {"succeed"})) = 2
  /\ heap[initialContext[1]] = [a |-> V3, c |-> V1]
  /\ ListOf(1)[WorkCalls(1)[1].pos] = TaskB
  /\ heap[3] = [a |-> V2, b |-> V3]
  /\ context[1] \notin {initialContext[1], 3}
  /\ heap[context[1]] # heap[initialContext[1]]

\* ---------------------------------------------------------------- C20
\* The sum of the sizes of the files of a set.
RECURSIVE SizeOf(_)
SizeOf(S) == IF S = {} THEN 0 ELSE LET f == CHOOSE f \in S : TRUE IN f.size + SizeOf(S \ {f})

\* C20: the listing has one line per file that matches the pattern, each naming another
\* matched file, followed by exactly one footer line, the last; the footer reads
\* `<n> files, total:` with n the number of matched files, and the total it shows is the
\* sum of the sizes of exactly those files: `0 files, total:` and `0 B` when none matches.
C20_FileListFooter ==
  listing.called =>
    LET matched == {tree[i] : i \in {j \in 1..Len(tree) : Matches(pattern, tree[j])}}
        n == Cardinality(matched)
        label == ToString(n) \o " files, total:"
        footer == "  " \o Dim(label \o Spaces(WIDTH - Len(label)), colors)
                       \o "  " \o Dim(Bytes(SizeOf(matched)), colors)
        last == Len(listing.lines)
    IN  /\ last = n + 1
        /\ listing.lines[last] = footer
        /\ \A i \in 1..n : listing.lines[i] # footer
        /\ \E order \in [1..n -> matched] :
             /\ \A i, j \in 1..n : i # j => order[i] # order[j]
             /\ \A i \in 1..n :
                  listing.lines[i] =
                    "  " \o Cyan(PadEnd(RelativePath(order[i]), WIDTH), colors)
                         \o "  " \o Dim(Bytes(order[i].size), colors)
        /\ (n = 0 /\ ~colors) =>
             listing.text = "  0 files, total:                                0 B"
        /\ n = 1 => \E f \in matched : footer = "  " \o Dim(PadEnd("1 files, total:", WIDTH), colors)
                                                      \o "  " \o Dim(Bytes(f.size), colors)

\* Three files, two of them matched by `src/**/*.ts`: two lines and the footer, which
\* counts 2 files and adds up 200 + 94 bytes.
C20_Witness ==
  /\ listing.called
  /\ Len(tree) = 3
  /\ pattern = "src/**/*.ts"
  /\ ~colors
  /\ Len(listing.lines) = 3
  /\ listing.lines[3] = "  2 files, total:                                294 B"
  /\ listing.lines[1] = "  src/lib/utils.ts                               94 B"

\* ---------------------------------------------------------------- C21
\* The run has resumed after the work it invoked for the element at position pos.
Resumed(r, pos) == ~(idx[r] = pos /\ pc[r] \in {"awaiting", "settled"})

NotifierCalls(r) == Calls(r, {"start", "succeed", "fail"})

\* C22: at any time of one run, the starts outnumber the succeeds and fails by none or
\* by one; the notifier calls alternate, start then succeed or fail of the same task, and
\* the tasks follow each other in list order: no start while an earlier one is unpaired.
C22_StartEndPairing ==
  \A r \in RunIds :
    LET n == NotifierCalls(r)
        starts == Len(Calls(r, {"start"}))
        ends == Len(Calls(r, {"succeed", "fail"}))
    IN  /\ (starts - ends) \in {0, 1}
        /\ \A k \in 1..Len(n) :
             IF k % 2 = 1
               THEN /\ n[k].op = "start"
                    /\ k > 2 => n[k].pos > n[k - 2].pos
               ELSE /\ n[k].op \in {"succeed", "fail"}
                    /\ n[k].pos = n[k - 1].pos

\* The second task of a list with a marker was started after the first one's start and
\* succeed.
C22_Witness ==
  /\ Len(NotifierCalls(1)) = 3
  /\ pc[1] = "awaiting"
  /\ \E i \in 1..idx[1] : Falsy(ListOf(1)[i])

\* ---------------------------------------------------------------- C23
SpecCallbacks == InitCallbacks /\ [][Next]_vars

\* C23: a task whose work completed normally is never reported as failed and never makes
\* the run reject: once the run has resumed after such a work, the success was notified,
\* the context was replaced by the merge, and no fail was called for the task.
C23_OnlyWorkFailuresFail ==
  \A r \in RunIds : \A k \in 1..Len(WorkCalls(r)) :
    LET e == WorkCalls(r)[k]
        at == {i \in 1..Len(log) : log[i].run = r /\ log[i].pos = e.pos}
    IN  Work(ListOf(r)[e.pos], e.ctx).mode = "resolve" /\ Resumed(r, e.pos) =>
          /\ \E i \in at : log[i].op = "succeed"
          /\ \E i \in at : log[i].op = "merge"
          /\ \A i \in at : log[i].op \notin {"fail", "throw"}
          /\ ~(pc[r] = "rejected" /\ idx[r] = e.pos)

\* ---------------------------------------------------------------- C24
SpecMutate == InitMutate /\ [][Next]_vars

\* The context after the m-th work of run r, when only what the works returned counts,
\* from the initial context `initial`.
RECURSIVE ReturnedOnly(_, _, _)
ReturnedOnly(r, m, initial) ==
  IF m = 0 THEN initial
  ELSE LET returned == ReturnedBy(r, WorkCalls(r)[m])
       IN  IF returned.t = "object"
             THEN returned.v @@ ReturnedOnly(r, m - 1, initial)
             ELSE ReturnedOnly(r, m - 1, initial)

\* The context after the m-th work of run r, when what the works assigned in place counts
\* as well: each work's assignments go onto the context it was handed, what it returned
\* goes on top.
RECURSIVE ReturnedAndWritten(_, _, _)
ReturnedAndWritten(r, m, initial) ==
  IF m = 0 THEN initial
  ELSE LET e == WorkCalls(r)[m]
           returned == ReturnedBy(r, e)
           before == ReturnedAndWritten(r, m - 1, initial)
           written == Writes(ListOf(r)[e.pos], before) @@ before
       IN  IF returned.t = "object" THEN returned.v @@ written ELSE written

\* C24 as stated: each task observes an immutable view. What a work assigns in place to
\* the context it received shows nowhere: onSuccess is handed the context as the work was
\* handed it, every later work and the final Result hold the initial context merged with
\* the returned updates only, and the caller's initial context object holds what it held
\* (the second context object of InitMutate is an equal copy that is never handed out).
C24_ImmutableView ==
  \A r \in caller.runs :
    LET ws == WorkCalls(r)
        initial == heap[2]
    IN  /\ \A i \in 1..Len(log) :
             log[i].run = r /\ log[i].op = "onSuccess" =>
               log[i].ctx = CallAt(r, "work", log[i].pos).ctx
        /\ \A k \in 1..Len(ws) : ws[k].ctx = ReturnedOnly(r, k - 1, initial)
        /\ pc[r] = "resolved" =>
             heap[result[r].context] = ReturnedOnly(r, Len(ws), initial)
        /\ heap[initialContext[r]] = initial

\* C24 as amended: no step of the executor changes an object in place, and the running
\* context is replaced only by the merge; but the work is handed the running context
\* object itself, so what it assigns in place is seen by onSuccess, is carried by the merge
\* to the later works and to the final Result unless a returned update overrides it, and
\* is in the caller's initial context object when the task is the first one executed.
C24_SharedView ==
  /\ [](\A r \in caller.runs :
         LET ws == WorkCalls(r)
             initial == heap[2]
         IN  /\ \A i \in 1..Len(log) :
                  log[i].run = r /\ log[i].op = "onSuccess" =>
                    LET e == CallAt(r, "work", log[i].pos)
                    IN  /\ log[i].ref = e.ref
                        /\ log[i].ctx = Writes(ListOf(r)[e.pos], e.ctx) @@ e.ctx
             /\ \A k \in 1..Len(ws) : ws[k].ctx = ReturnedAndWritten(r, k - 1, initial)
             /\ pc[r] = "resolved" =>
                  heap[result[r].context] = ReturnedAndWritten(r, Len(ws), initial)
             /\ Len(ws) > 0 /\ Resumed(r, ws[1].pos) =>
                  heap[initialContext[r]] =
                    Writes(ListOf(r)[ws[1].pos], initial) @@ initial)
  /\ [][inflight' = inflight =>
         \A ref \in 1..Len(heap) : heap'[ref] = heap[ref]]_vars

\* The first work assigned to a key of the initial context object that held another
\* value; a second task ran on the merged context and the run resolved.
C24_Witness ==
  /\ pc[1] = "resolved"
  /\ Len(WorkCalls(1)) = 2
  /\ WorkCalls(1)[1].name = "M"
  /\ heap[2] = [a |-> V3, c |-> V1]
  /\ heap[initialContext[1]] = [a |-> V2, c |-> V1]
  /\ heap[result[1].context]["a"] = V2

\* ---------------------------------------------------------------- C25
\* C25 as stated: the sequence of a pipeline is fixed at construction. Every run executes
\* the tasks of the list as it was supplied to pipe, in that order, whatever was done to
\* the caller's list afterwards.
C25_SequenceFixedAtConstruction ==
  \A r \in RunIds :
    LET ws == WorkCalls(r)
        list == supplied[pipeOf[r]]
        expected == TaskPositions(list)
    IN  /\ IsPrefix([k \in 1..Len(ws) |-> ws[k].pos], expected)
        /\ \A k \in 1..Len(ws) : ws[k].name = list[ws[k].pos].name
        /\ pc[r] = "resolved" => Len(ws) = Len(expected)

\* C25 as amended: pipe keeps the caller's list itself and never modifies it. A run looks
\* at the list as it stands each time it moves on, from the position after the one it was
\* at: it skips the markers that are there then, invokes the work of the first task that
\* is there then, and resolves when nothing is left then; a position is never visited
\* twice. A list that was not modified is run as it was supplied.
C25_SequenceReadWhenReached ==
  /\ [][\A r \in RunIds :
          LET live == tasks[pipeOf[r]]
              before == Len(WorkCalls(r))
              after == WorkCalls(r)'
          IN  /\ Len(after) > before =>
                   LET e == after[Len(after)]
                   IN  /\ Len(after) = before + 1
                       /\ e.pos > idx[r]
                       /\ e.pos <= Len(live)
                       /\ e.name = live[e.pos].name
                       /\ \A j \in (idx[r] + 1)..(e.pos - 1) : Falsy(live[j])
              /\ pc[r] # "resolved" /\ pc'[r] = "resolved" =>
                   \A j \in (idx[r] + 1)..Len(live) : Falsy(live[j])
              /\ (tasks' # tasks => log' = log /\ pc' = pc)]_vars
  /\ [](\A r \in RunIds :
         tasks[pipeOf[r]] = supplied[pipeOf[r]] =>
           IsPrefix([k \in 1..Len(WorkCalls(r)) |-> WorkCalls(r)[k].pos],
                    TaskPositions(supplied[pipeOf[r]])))

\* While the work of the first task was pending, a task was pushed onto the list, which
\* held one task when pipe was called: the run went on to invoke the work of the pushed
\* task as well.
C25_Witness ==
  /\ Len(supplied[1]) = 1
  /\ Len(tasks[1]) = 2
  /\ Len(WorkCalls(1)) = 2
  /\ WorkCalls(1)[2].pos = 2

\* ---------------------------------------------------------------- C30
\* C30: pipe can be called with any list, markers included, and the call changes nothing
\* but the pipeline it returns: no work or callback is invoked, no notifier is created,
\* the clock is not read, no object is created or changed, the list is kept as it is. As
\* long as no run was invoked, nothing has happened.
C30_ConstructionHasNoEffects ==
  /\ [](\A p \in DOMAIN tasks \ built : ENABLED Pipe(p))
  /\ []((\A r \in RunIds : pc[r] = "uncalled") =>
          /\ log = <<>>
          /\ errs = <<>>
          /\ Len(heap) = 2
          /\ \A r \in RunIds : inflight[r] = {} /\ result[r] = NoResult)
  /\ [][built' # built =>
          /\ \A p \in built' \ built : supplied'[p] = tasks[p]
          /\ UNCHANGED <<tasks, current, caller, pipeOf, initialContext, pc, idx, context,
                         startTime, taskStart, taskEnd, settled, result, inflight,
                         workTime, heap, errs, now, log, notifier, fileVars>>]_vars

\* A pipeline was built from a list that holds a marker and a task, and no run was
\* invoked yet.
C30_Witness ==
  /\ built = {1}
  /\ pc[1] = "uncalled"
  /\ \E i, j \in 1..Len(tasks[1]) : Falsy(tasks[1][i]) /\ ~Falsy(tasks[1][j])
  /\ log = <<>>

\* ---------------------------------------------------------------- C26
\* One run, under the scheduling the claim supposes and the event loop gives: the promise
\* of every invoked work is settled in the end, and a run whose awaited promise has settled
\* is resumed.
SpecFair ==
  /\ InitFair
  /\ [][Next]_vars
  /\ \A r \in RunIds :
       WF_vars(Settle(r)) /\ WF_vars(ResumeFulfilled(r)) /\ WF_vars(ResumeRejected(r))

\* C26: every run that was invoked settles in the end; it resolves past the last element
\* of the list or rejects at the task that failed; it invokes the work of no position
\* twice, so a list of n elements gives at most n work invocations.
C26_RunTerminates ==
  /\ \A r \in RunIds : (pc[r] # "uncalled") ~> HasSettled(r)
  /\ [](\A r \in RunIds :
         LET ws == WorkCalls(r)
         IN  /\ Len(ws) <= Len(ListOf(r))
             /\ \A k, m \in 1..Len(ws) : k < m => ws[k].pos < ws[m].pos
             /\ pc[r] = "resolved" => idx[r] = Len(ListOf(r)) + 1
             /\ pc[r] = "rejected" =>
                  /\ idx[r] \in 1..Len(ListOf(r))
                  /\ Len(ws) > 0 /\ ws[Len(ws)].pos = idx[r])

\* The run of a list that holds as many tasks as a list may hold has settled after a work
\* for every element.
C26_Witness ==
  /\ HasSettled(1)
  /\ Len(ListOf(1)) = MaxTasks
  /\ Len(WorkCalls(1)) = MaxTasks

\* ---------------------------------------------------------------- C27
\* C27: no retries and no swallowing. No work is invoked twice; when the run resolves,
\* the work of every task of the list was invoked once; after a work failed no work is
\* invoked any more, the failed one included; and the run that handled the failure has
\* rejected, it never resolves.
C27_NoRetryNoSwallow ==
  [][\A r \in RunIds :
       LET ws == WorkCalls(r)
           failed == \E k \in 1..Len(ListOf(r)) : WorkFailed(r, k)
       IN  /\ \A k, m \in 1..Len(ws) : ws[k].pos = ws[m].pos => k = m
           /\ pc[r] = "resolved" =>
                \A j \in 1..Len(ListOf(r)) :
                  ~Falsy(ListOf(r)[j]) =>
                    Cardinality({k \in 1..Len(ws) : ws[k].pos = j}) = 1
           /\ failed =>
                /\ WorkCalls(r)' = ws
                /\ pc[r] # "resolved" /\ pc'[r] # "resolved"
                /\ pc'[r] # pc[r] => pc'[r] = "rejected" /\ result'[r].t = "rejected"
                /\ HasSettled(r) => result[r].t = "rejected"]_vars

\* The run rejected at its second task, whose work was invoked once like the first one's,
\* and the work of the third task was never invoked.
C27_Witness ==
  /\ pc[1] = "rejected"
  /\ Len(ListOf(1)) = 3
  /\ \A j \in 1..3 : ~Falsy(ListOf(1)[j])
  /\ Len(WorkCalls(1)) = 2
  /\ idx[1] = 2

\* ---------------------------------------------------------------- C28
\* C28: there is no timeout and no cancellation. While the promise of the work a run
\* invoked is pending, the run is suspended at that task: it has neither resolved nor
\* rejected, the invocation of that work is the last thing it did, and whatever else
\* happens meanwhile, it does nothing until the promise settles.
C28_PendingWorkBlocksRun ==
  /\ [](\A r \in RunIds : \A p \in inflight[r] :
         LET mine == Calls(r, {"now", "ora", "start", "work", "onSuccess", "succeed",
                               "merge", "onError", "fail", "throw"})
         IN  /\ pc[r] = "awaiting" /\ idx[r] = p.pos
             /\ result[r] = NoResult
             /\ mine[Len(mine)].op = "work" /\ mine[Len(mine)].pos = p.pos
             /\ \A k \in 1..Len(mine) : mine[k].pos <= p.pos)
  /\ [][\A r \in RunIds :
          inflight[r] # {} /\ inflight'[r] = inflight[r] =>
            /\ pc'[r] = pc[r] /\ idx'[r] = idx[r] /\ result'[r] = result[r]
            /\ context'[r] = context[r]
            /\ Calls(r, {"ora", "start", "work", "succeed", "fail"})'
                 = Calls(r, {"ora", "start", "work", "succeed", "fail"})]_vars

\* The work of the first task of one run is still pending after the other run, invoked
\* later on the same pipeline, has settled.
C28_Witness ==
  /\ pc[1] = "awaiting"
  /\ inflight[1] # {}
  /\ Len(WorkCalls(1)) = 1
  /\ HasSettled(2)
  /\ Len(WorkCalls(2)) = MaxConcTasks

\* ---------------------------------------------------------------- C29
\* Everything run r did, in order.
Steps(r) == SelectSeq(log, LAMBDA e : e.run = r)

\* How often run r read the clock for position pos.
Reads(r, pos) == Len(SelectSeq(log, LAMBDA e : e.run = r /\ e.op = "now" /\ e.pos = pos))

\* C29: the clock is read once when run is invoked, before anything else, and once more
\* when the run resolves, after everything else; for every task whose work was invoked it
\* was read once right before the notifier of the task was created, and once more when the
\* run resumed after the work had completed normally, before anything else was done for
\* the task; a task whose work failed has no second reading. For an absence marker the
\* clock is not read, no notifier is created or called, and nothing is merged.
C29_ClockReads ==
  \A r \in RunIds :
    LET mine == Steps(r)
        list == ListOf(r)
    IN  /\ pc[r] = "uncalled" => mine = <<>>
        /\ pc[r] # "uncalled" =>
             /\ mine[1].op = "now" /\ mine[1].pos = 0
             /\ Reads(r, 0) = (IF pc[r] = "resolved" THEN 2 ELSE 1)
        /\ pc[r] = "resolved" => mine[Len(mine)].op = "now" /\ mine[Len(mine)].pos = 0
        /\ \A k \in 1..Len(mine) :
             /\ mine[k].op = "ora" =>
                  /\ mine[k - 1].op = "now" /\ mine[k - 1].pos = mine[k].pos
                  /\ \A h \in 1..(k - 2) : mine[h].pos # mine[k].pos
             /\ mine[k].op = "work" /\ k < Len(mine) =>
                  IF Work(list[mine[k].pos], mine[k].ctx).mode = "resolve"
                    THEN mine[k + 1].op = "now" /\ mine[k + 1].pos = mine[k].pos
                    ELSE mine[k + 1].op # "now"
        /\ \A j \in 1..Len(list) :
             LET invoked == \E k \in 1..Len(mine) : mine[k].op = "work" /\ mine[k].pos = j
                 completed == /\ invoked
                              /\ Resumed(r, j)
                              /\ Work(list[j], CallAt(r, "work", j).ctx).mode = "resolve"
             IN  /\ Reads(r, j) = (IF invoked THEN 1 ELSE 0) + (IF completed THEN 1 ELSE 0)
                 /\ Falsy(list[j]) => \A k \in 1..Len(mine) : mine[k].pos # j

\* A run over a marker, a task that succeeded and a task that failed has rejected: one
\* reading for the run, none for the marker, two for the first task, one for the second.
C29_Witness ==
  /\ pc[1] = "rejected"
  /\ Len(ListOf(1)) = 3
  /\ Falsy(ListOf(1)[1])
  /\ Reads(1, 0) = 1
  /\ Reads(1, 2) = 2
  /\ Reads(1, 3) = 1

\* ---------------------------------------------------------------- C31
\* How many of the first n elements of a list are tasks.
TasksAmong(list, n) == Cardinality({j \in 1..n : j <= Len(list) /\ ~Falsy(list[j])})

\* C31: a run that rejected at the k-th task of its list that is no marker invoked k
\* works and called start k times, succeed k - 1 times and fail once; a run that resolved
\* over a list of n tasks invoked n works and called start n times, succeed n times and
\* fail never.
C31_CallCounts ==
  \A r \in RunIds :
    LET works == Len(WorkCalls(r))
        starts == Len(Calls(r, {"start"}))
        succeeds == Len(Calls(r, {"succeed"}))
        fails == Len(Calls(r, {"fail"}))
    IN  /\ pc[r] = "rejected" =>
             LET k == TasksAmong(ListOf(r), idx[r])
             IN  /\ k >= 1
                 /\ works = k /\ starts = k /\ succeeds = k - 1 /\ fails = 1
        /\ pc[r] = "resolved" =>
             LET n == TasksAmong(ListOf(r), Len(ListOf(r)))
             IN  works = n /\ starts = n /\ succeeds = n /\ fails = 0

\* The run of a list with a marker rejected at its second task: two works, two starts,
\* one succeed, one fail.
C31_Witness ==
  /\ pc[1] = "rejected"
  /\ \E j \in 1..idx[1] : Falsy(ListOf(1)[j])
  /\ Len(WorkCalls(1)) = 2
  /\ Len(Calls(1, {"succeed"})) = 1
  /\ Len(Calls(1, {"fail"})) = 1

\* ---------------------------------------------------------------- C32
\* The call `call` throws on the notifier of the task at position j of run r's list.
Broke(r, call, j) ==
  notifier.call = call /\ TasksAmong(ListOf(r), j) >= notifier.from

\* The work run r invoked for position j completed normally, and then the onSuccess
\* callback of the task, or the succeed of its notifier, threw.
ThrewAfterWork(r, j) ==
  /\ \E i \in 1..Len(log) : log[i].run = r /\ log[i].op = "work" /\ log[i].pos = j
  /\ Resumed(r, j)
  /\ Work(ListOf(r)[j], CallAt(r, "work", j).ctx).mode = "resolve"
  /\ OnSuccessThrows(ListOf(r)[j]) \/ Broke(r, "succeed", j)

\* C32: an exception thrown by onSuccess, or by succeed, after the work completed
\* normally is handled like a failure of the work. Nothing is merged, the running context
\* stays the object the work was handed; onError, if supplied, is called with the
\* exception; fail is called with the text onError returned, or the name; nothing is done
\* for a later element; and the run rejects with an Error whose message is
\* `Task "<name>" failed: <message of the exception>` and whose cause is the exception.
\* (As for a failure of the work, this is what happens when onError and fail return.)
C32_CallbackFailureIsTaskFailure ==
  \A r \in RunIds : \A j \in 1..Len(ListOf(r)) :
    ThrewAfterWork(r, j) /\ ~OnErrorThrows(ListOf(r)[j]) /\ ~Broke(r, "fail", j) =>
      LET task == ListOf(r)[j]
          at == {i \in 1..Len(log) : log[i].run = r /\ log[i].pos = j}
          rejection == errs[result[r].error]
          thrown == errs[rejection.cause]
      IN  /\ pc[r] = "rejected" /\ idx[r] = j /\ result[r].t = "rejected"
          /\ \A i \in at : log[i].op # "merge"
          /\ context[r] = CallAt(r, "work", j).ref
          /\ \A i \in 1..Len(log) : log[i].run = r => log[i].pos <= j
          /\ rejection.origin = "composite"
          /\ rejection.cause \in 1..Len(errs)
          /\ thrown.origin = (IF OnSuccessThrows(task) THEN "callback" ELSE "notifier")
          /\ rejection.message = "Task \"" \o task.name \o "\" failed: " \o thrown.message
          /\ task.onError # "none" <=>
               \E i \in at : log[i].op = "onError" /\ log[i].ref = rejection.cause
          /\ \E i \in at :
               /\ log[i].op = "fail"
               /\ log[i].msg = (IF task.onError = "none" THEN task.name
                                ELSE "Custom error: " \o thrown.message)

\* The onSuccess callback of the second task threw after the first task had succeeded:
\* the run rejected, onError was called, and the running context is the one the first
\* merge made.
C32_Witness ==
  /\ ThrewAfterWork(1, 2)
  /\ ListOf(1)[1] = TaskA /\ ListOf(1)[2] = TaskH
  /\ pc[1] = "rejected"
  /\ \E i \in 1..Len(log) : log[i].op = "onError"
  /\ errs[result[1].error].message = "Task \"H\" failed: bad format"

\* ---------------------------------------------------------------- C33
\* C33: when the onError callback of a task throws while the failure of that task is
\* handled, fail is not called for the task, the composite is never built, the run rejects
\* with the very exception onError threw, and nothing is done for a later element.
C33_OnErrorThrowsRaw ==
  \A r \in RunIds : \A i \in 1..Len(log) :
    LET e == log[i]
        at == {k \in 1..Len(log) : log[k].run = r /\ log[k].pos = e.pos}
    IN  e.run = r /\ e.op = "onError" /\ OnErrorThrows(ListOf(r)[e.pos]) =>
          /\ \A k \in at : log[k].op \notin {"fail", "throw"}
          /\ i = Len(log)
          /\ pc[r] = "rejected" /\ idx[r] = e.pos /\ result[r].t = "rejected"
          /\ result[r].error = Len(errs)
          /\ result[r].error # e.ref
          /\ errs[result[r].error] = NewError("bad handler", 0, "callback")
          /\ \A k \in 1..Len(errs) : errs[k].origin # "composite"

\* The work of the second task rejected and its onError callback threw: the run rejected
\* with what the callback threw, after one start and succeed and one more start.
C33_Witness ==
  /\ ListOf(1) = <<TaskA, TaskI>>
  /\ notifier.call = "works"
  /\ pc[1] = "rejected"
  /\ errs[result[1].error].message = "bad handler"
  /\ Len(NotifierCalls(1)) = 3

\* ---------------------------------------------------------------- C34
\* C34: when creating or starting the notifier of a task throws, the work of the task is
\* not invoked, neither onSuccess nor succeed nor onError nor fail is called for it,
\* nothing is done for a later element, and the run rejects with the very exception: no
\* composite is built from it.
C34_NotifierStartThrowsRaw ==
  \A r \in RunIds : \A i \in 1..Len(log) :
    LET e == log[i]
        at == {k \in 1..Len(log) : log[k].run = r /\ log[k].pos = e.pos}
    IN  /\ e.run = r /\ e.op = "ora"
        /\ Broke(r, "create", e.pos) \/ Broke(r, "start", e.pos)
        => /\ pc[r] = "rejected" /\ idx[r] = e.pos /\ result[r].t = "rejected"
           /\ \A k \in at :
                log[k].op \notin {"work", "onSuccess", "succeed", "merge", "onError",
                                  "fail", "throw"}
           /\ Cardinality({k \in at : log[k].op = "start"})
                = (IF notifier.call = "start" THEN 1 ELSE 0)
           /\ \A k \in 1..Len(log) : log[k].run = r => log[k].pos <= e.pos
           /\ result[r].error = Len(errs)
           /\ errs[result[r].error] = NewError("write EPIPE", 0, "notifier")

\* After the first task had succeeded, the notifier of the second task, past a marker,
\* could not be started: the run rejected and no work was invoked for that task.
C34_Witness ==
  /\ notifier = [call |-> "start", from |-> 2]
  /\ pc[1] = "rejected"
  /\ Len(ListOf(1)) = MaxTasks
  /\ Falsy(ListOf(1)[2])
  /\ idx[1] = 3
  /\ Len(Calls(1, {"succeed"})) = 1
  /\ Len(WorkCalls(1)) = 1

\* ---------------------------------------------------------------- C35
\* C35: the context of the Result of a run that executed no task is the very object the
\* caller passed, so what is assigned to the one afterwards shows in the other. The
\* context of the Result of a run that executed a task, even one that returned nothing,
\* is an object created by the run, another one than the caller's: what is assigned to
\* either of them afterwards leaves the other as it was.
C35_ResultContextIdentity ==
  /\ [](\A r \in RunIds :
         pc[r] = "resolved" =>
           IF WorkCalls(r) = <<>>
             THEN result[r].context = initialContext[r]
             ELSE /\ result[r].context # initialContext[r]
                  /\ \A i \in 1..Len(log) : log[i].op = "work" => log[i].ref # result[r].context)
  /\ [][\A r \in RunIds :
          pc[r] = "resolved" /\ heap' # heap =>
            LET ini == initialContext[r]
                res == result[r].context
            IN  /\ heap'[ini] # heap[ini] \/ heap'[res] # heap[res]
                /\ WorkCalls(r) = <<>> => heap'[ini] = heap'[res]
                /\ WorkCalls(r) # <<>> => heap'[ini] = heap[ini] \/ heap'[res] = heap[res]]_vars

\* After a run whose only task returned nothing, the caller assigned to a key of the
\* context of the Result: the initial context object still holds what it held.
C35_Witness ==
  /\ pc[1] = "resolved"
  /\ Len(WorkCalls(1)) = 1
  /\ WorkCalls(1)[1].name = "C"
  /\ heap[initialContext[1]] = [a |-> V3, c |-> V1]
  /\ heap[result[1].context] = [a |-> V3, c |-> V2]

\* ---------------------------------------------------------------- C36
\* The names of the calls of a sequence of log entries.
Ops(calls) == [i \in 1..Len(calls) |-> calls[i].op]

\* C36: while runs of one pipeline are in flight together, the notifier calls of a run,
\* taken on their own, alternate between a start and an ending, for the task the start
\* was for; the ending is succeed for all but the last pair and fail only where the run
\* is rejected; a run that has ended has no start left without its ending. The works of
\* a run, taken on their own, are those of the tasks of the list, in list order: a
\* prefix while it runs, all of them when it resolves, up to the failed one when it is
\* rejected.
C36_PerRunOrder ==
  \A r \in RunIds :
    LET calls == NotifierCalls(r)
        works == WorkCalls(r)
        order == TaskPositions(ListOf(r))
    IN  /\ \A i \in 1..Len(calls) :
             /\ i % 2 = 1 => calls[i].op = "start"
             /\ i % 2 = 0 => /\ calls[i].op \in {"succeed", "fail"}
                             /\ calls[i].pos = calls[i - 1].pos
             /\ calls[i].op = "fail" => i = Len(calls) /\ pc[r] = "rejected"
        /\ HasSettled(r) => Len(calls) % 2 = 0
        /\ pc[r] = "rejected" => Len(calls) > 0 /\ calls[Len(calls)].op = "fail"
        /\ Len(works) <= Len(order)
        /\ \A n \in 1..Len(works) : works[n].pos = order[n]
        /\ pc[r] = "resolved" => Len(works) = Len(order)

\* The calls of the two runs alternated in the log (start of run 1, start of run 2,
\* ending of run 1, ending of run 2, at the same task), and the first run went on to a
\* second task that failed.
C36_Witness ==
  /\ HasSettled(1) /\ HasSettled(2)
  /\ Ops(NotifierCalls(1)) = <<"start", "succeed", "start", "fail">>
  /\ \E i, j, k, l \in 1..Len(log) :
       /\ i < j /\ j < k /\ k < l
       /\ log[i].run = 1 /\ log[i].op = "start"
       /\ log[j].run = 2 /\ log[j].op = "start"
       /\ log[k].run = 1 /\ log[k].op = "succeed" /\ log[k].pos = log[i].pos
       /\ log[l].run = 2 /\ log[l].op = "succeed" /\ log[l].pos = log[j].pos

\* ---------------------------------------------------------------- C37
\* The calls run r made for the element at position pos, in order.
OpsAt(r, pos) == Ops(SelectSeq(log, LAMBDA e : e.run = r /\ e.pos = pos))

\* C37: a work that resolved to null is treated as one that resolved to undefined: once
\* the run has resumed, the same calls were made for the task in the same order, ending
\* with succeed and the merge, and the merged context has the keys and values of the
\* context the work was handed. A work that resolved to an object has the own properties
\* of that object laid over the context it was handed; a work that resolved to a number,
\* which has no own properties, leaves the keys and values as they were.
C37_NullAsUndefined ==
  \A r \in RunIds : \A n \in 1..Len(WorkCalls(r)) :
    LET w == WorkCalls(r)[n]
        returned == ReturnedBy(r, w)
        merges == SelectSeq(log, LAMBDA e : e.run = r /\ e.op = "merge" /\ e.pos = w.pos)
    IN  Resumed(r, w.pos) /\ Work(ListOf(r)[w.pos], w.ctx).mode = "resolve" =>
          /\ Len(merges) = 1
          /\ returned \in {Null, Undefined} =>
                /\ OpsAt(r, w.pos) = <<"now", "ora", "start", "work", "now", "succeed", "merge">>
                /\ merges[1].ctx = w.ctx
          /\ returned.t = "object" =>
                /\ DOMAIN merges[1].ctx = DOMAIN w.ctx \cup DOMAIN returned.v
                /\ \A k \in DOMAIN returned.v : merges[1].ctx[k] = returned.v[k]
                /\ \A k \in DOMAIN w.ctx \ DOMAIN returned.v : merges[1].ctx[k] = w.ctx[k]
          /\ returned.t = "number" => merges[1].ctx = w.ctx

\* A run resolved after a work that returned an update, one that resolved to null and
\* one that resolved to undefined: the Result holds the update and the initial keys.
C37_Witness ==
  /\ pc[1] = "resolved"
  /\ [n \in 1..Len(WorkCalls(1)) |-> WorkCalls(1)[n].name] = <<"A", "N", "C">>
  /\ heap[result[1].context] = [a |-> V1, c |-> V1]

====
